---- MODULE Spec2Model ----
(***************************************************************************)
(* Model of norman_utils_external.  JsonPreSerializer is modelled over an  *)
(* explicit heap: every Python object is an address, id(x) is the address  *)
(* of x, and containers hold addresses.  One loop iteration of             *)
(* prepare_for_serialization is one action.                                *)
(***************************************************************************)
EXTENDS Integers, Sequences, FiniteSets, TLC

(* The state of JsonPreSerializer.prepare_for_serialization.               *)
VARIABLES heap, original, context_var, node_lookup,
          traversal_stack, visited_element_ids, pc, result

(* The state of DictUtils.deep_merge: the dictionaries (dicts) and what    *)
(* they held when the call began (dicts0), the two arguments, the queue,   *)
(* the position of the call, the returned object, and the pairs the loop   *)
(* has taken from the queue (merged, a history of the run).                *)
VARIABLES dicts, dicts0, source_dict, target_dict, node_queue,
          merge_pc, merge_result, merged

(* The state of the Singleton metaclass: the class attribute _instances    *)
(* (instances), and for every thread the position of its call of __call__  *)
(* (call_pc), the object its super().__call__ built (created), the objects *)
(* its calls returned (returned) and the calls it has yet to make          *)
(* (calls_left); constructed is the set of objects ever built.             *)
VARIABLES instances, call_pc, created, returned, calls_left,
          constructed

(* The state of a SecureRandomIntGenerator: the two constructor arguments, *)
(* the attributes __init__ computes, the raw value generate last drew      *)
(* (random_value, the local value), the integer it returned (generated)    *)
(* and the position of the caller.                                         *)
VARIABLES lower_bound, upper_bound, range_size, bits_needed,
          bytes_needed, max_value, rejection_threshold,
          random_value, generated, random_pc

(* The state of a call of DotSyntaxResolver.get: the two arguments parent  *)
(* and key (get_parent, get_key), the list accessors and how many of them  *)
(* the loop has used (accessor_index), deepest_value, the position of the  *)
(* call and the value it returned.                                         *)
VARIABLES get_parent, get_key, accessors, accessor_index,
          deepest_value, get_pc, get_result

(* The state of a call of DateUtils.datetime_to_string: the datetime, the  *)
(* format the caller passed, the str returned and the position of the      *)
(* call.                                                                   *)
VARIABLES date_time, date_format, date_string, date_pc

(* The state of a call of StreamingUtils.process_read_stream: what the     *)
(* successive reads of file_stream return (stream_reads) and how many      *)
(* reads were made (read_count), whether read is a coroutine function      *)
(* (read_is_async), the arguments processor and yield_processed, the       *)
(* locals chunk and processed, the position of the generator, the items it *)
(* yielded (yielded) and the chunks processor was applied to               *)
(* (processor_calls).                                                      *)
VARIABLES stream_reads, read_count, read_is_async, processor,
          yield_processed, chunk, processed, stream_pc, yielded,
          processor_calls

(* The state of one application of JsonPreSerializer.shallow_normalize     *)
(* followed by create_stack_elements (lines 46 and 49): the value given,   *)
(* what shallow_normalize returned, the work items made of it, and the     *)
(* position.                                                               *)
VARIABLES given_node, normalized, stack_elements, normalize_pc

serializerVars == <<heap, original, context_var, node_lookup,
                    traversal_stack, visited_element_ids, pc,
                    result>>

mergeVars == <<dicts, dicts0, source_dict, target_dict, node_queue,
               merge_pc, merge_result, merged>>

singletonVars == <<instances, call_pc, created, returned,
                   calls_left, constructed>>

randomVars == <<lower_bound, upper_bound, range_size, bits_needed,
                bytes_needed, max_value, rejection_threshold,
                random_value, generated, random_pc>>

resolverVars == <<get_parent, get_key, accessors, accessor_index,
                  deepest_value, get_pc, get_result>>

dateVars == <<date_time, date_format, date_string, date_pc>>

streamVars == <<stream_reads, read_count, read_is_async, processor,
                yield_processed, chunk, processed, stream_pc,
                yielded, processor_calls>>

normalizeVars == <<given_node, normalized, stack_elements,
                   normalize_pc>>

(* The state of every utility but JsonPreSerializer.                       *)
utilVars == <<mergeVars, singletonVars, randomVars, resolverVars, dateVars, streamVars, normalizeVars>>

vars == <<serializerVars, utilVars>>

(* No call of prepare_for_serialization is in progress.                    *)
SerializerIdle ==
    /\ heap = <<>>
    /\ original = <<>>
    /\ context_var = <<>>
    /\ node_lookup = <<>>
    /\ traversal_stack = <<>>
    /\ visited_element_ids = <<>>
    /\ pc = <<>>
    /\ result = <<>>

(* No call of deep_merge is in progress.                                   *)
MergeIdle ==
    /\ dicts = <<>>
    /\ dicts0 = <<>>
    /\ source_dict = <<>>
    /\ target_dict = <<>>
    /\ node_queue = <<>>
    /\ merge_pc = <<>>
    /\ merge_result = <<>>
    /\ merged = <<>>

(* No thread instantiates a Singleton class.                               *)
SingletonIdle ==
    /\ instances = <<>>
    /\ call_pc = <<>>
    /\ created = <<>>
    /\ returned = <<>>
    /\ calls_left = <<>>
    /\ constructed = <<>>

(* No SecureRandomIntGenerator is in use.                                  *)
RandomIdle ==
    /\ lower_bound = <<>>
    /\ upper_bound = <<>>
    /\ range_size = <<>>
    /\ bits_needed = <<>>
    /\ bytes_needed = <<>>
    /\ max_value = <<>>
    /\ rejection_threshold = <<>>
    /\ random_value = <<>>
    /\ generated = <<>>
    /\ random_pc = <<>>

(* No call of DotSyntaxResolver.get is in progress.                        *)
ResolverIdle ==
    /\ get_parent = <<>>
    /\ get_key = <<>>
    /\ accessors = <<>>
    /\ accessor_index = <<>>
    /\ deepest_value = <<>>
    /\ get_pc = <<>>
    /\ get_result = <<>>

(* No call of DateUtils.datetime_to_string is in progress.                 *)
DateIdle ==
    /\ date_time = <<>>
    /\ date_format = <<>>
    /\ date_string = <<>>
    /\ date_pc = <<>>

(* No call of process_read_stream is in progress.                          *)
StreamIdle ==
    /\ stream_reads = <<>>
    /\ read_count = <<>>
    /\ read_is_async = <<>>
    /\ processor = <<>>
    /\ yield_processed = <<>>
    /\ chunk = <<>>
    /\ processed = <<>>
    /\ stream_pc = <<>>
    /\ yielded = <<>>
    /\ processor_calls = <<>>

(* No value is being normalized on its own.                                *)
NormalizeIdle ==
    /\ given_node = <<>>
    /\ normalized = <<>>
    /\ stack_elements = <<>>
    /\ normalize_pc = <<>>

(* Only JsonPreSerializer is in use.                                       *)
UtilsIdle ==
    /\ MergeIdle
    /\ SingletonIdle
    /\ RandomIdle
    /\ ResolverIdle
    /\ DateIdle
    /\ StreamIdle
    /\ NormalizeIdle

(* What a step of deep_merge leaves alone, and its state when only         *)
(* deep_merge is in use.                                                   *)
mergeRest == <<serializerVars, singletonVars, randomVars, resolverVars, dateVars, streamVars, normalizeVars>>

MergeRestIdle ==
    /\ SerializerIdle
    /\ SingletonIdle
    /\ RandomIdle
    /\ ResolverIdle
    /\ DateIdle
    /\ StreamIdle
    /\ NormalizeIdle

(* What a step of Singleton.__call__ leaves alone, and its state when only *)
(* Singleton.__call__ is in use.                                           *)
singletonRest == <<serializerVars, mergeVars, randomVars, resolverVars, dateVars, streamVars, normalizeVars>>

SingletonRestIdle ==
    /\ SerializerIdle
    /\ MergeIdle
    /\ RandomIdle
    /\ ResolverIdle
    /\ DateIdle
    /\ StreamIdle
    /\ NormalizeIdle

(* What a step of SecureRandomIntGenerator leaves alone, and its state     *)
(* when only SecureRandomIntGenerator is in use.                           *)
randomRest == <<serializerVars, mergeVars, singletonVars, resolverVars, dateVars, streamVars, normalizeVars>>

RandomRestIdle ==
    /\ SerializerIdle
    /\ MergeIdle
    /\ SingletonIdle
    /\ ResolverIdle
    /\ DateIdle
    /\ StreamIdle
    /\ NormalizeIdle

(* What a step of DotSyntaxResolver.get leaves alone, and its state when   *)
(* only DotSyntaxResolver.get is in use.                                   *)
resolverRest == <<serializerVars, mergeVars, singletonVars, randomVars, dateVars, streamVars, normalizeVars>>

ResolverRestIdle ==
    /\ SerializerIdle
    /\ MergeIdle
    /\ SingletonIdle
    /\ RandomIdle
    /\ DateIdle
    /\ StreamIdle
    /\ NormalizeIdle

(* What a step of DateUtils.datetime_to_string leaves alone, and its state *)
(* when only DateUtils.datetime_to_string is in use.                       *)
dateRest == <<serializerVars, mergeVars, singletonVars, randomVars, resolverVars, streamVars, normalizeVars>>

DateRestIdle ==
    /\ SerializerIdle
    /\ MergeIdle
    /\ SingletonIdle
    /\ RandomIdle
    /\ ResolverIdle
    /\ StreamIdle
    /\ NormalizeIdle

(* What a step of process_read_stream leaves alone, and its state when     *)
(* only process_read_stream is in use.                                     *)
streamRest == <<serializerVars, mergeVars, singletonVars, randomVars, resolverVars, dateVars, normalizeVars>>

StreamRestIdle ==
    /\ SerializerIdle
    /\ MergeIdle
    /\ SingletonIdle
    /\ RandomIdle
    /\ ResolverIdle
    /\ DateIdle
    /\ NormalizeIdle

(* What a step of shallow_normalize leaves alone, and its state when only  *)
(* shallow_normalize is in use.                                            *)
normalizeRest == <<serializerVars, mergeVars, singletonVars, randomVars, resolverVars, dateVars, streamVars>>

NormalizeRestIdle ==
    /\ SerializerIdle
    /\ MergeIdle
    /\ SingletonIdle
    /\ RandomIdle
    /\ ResolverIdle
    /\ DateIdle
    /\ StreamIdle

(* Number of input objects a call of the single-call specification gets.   *)
NumObj == 2

(* Calls of prepare_for_serialization that can be in progress.             *)
CallIds == {1, 2}

----------------------------------------------------------------------------
(* Addresses.  In(n) is the n-th object of the input graph, Fresh(c, a) the *)
(* object the call c allocates while it normalizes the object at a, and    *)
(* RedactedLiteral the interned string constant "<redacted>".              *)
In(n) == <<"in", n>>

Fresh(c, a) == <<"new", c, a[2]>>

RedactedLiteral == <<"lit", 0>>

NoAddr == <<"none", 0>>

(* Keys: a str key is the sequence of its characters, an int key is not a  *)
(* str.                                                                    *)
StrKey(chars) == [isStr |-> TRUE, chars |-> chars]

IntKey(digits) == [isStr |-> FALSE, chars |-> digits]

KeyA == StrKey(<<"a">>)

KeyPrivate == StrKey(<<"_", "p">>)

KeyOne == IntKey(<<"1">>)

(* The pseudo key of the slots of a sequence and of the value of an enum.  *)
NoKey == StrKey(<<>>)

(* key.startswith("_") on a str key.                                       *)
StartsWithUnderscore(key) == Len(key.chars) > 0 /\ key.chars[1] = "_"

(* A Python object: the capabilities shallow_normalize and isinstance      *)
(* probe (caps), its child slots in iteration order (items: key, address)  *)
(* and the text of a scalar.                                               *)
Obj(caps, items, text) == [caps |-> caps, items |-> items, text |-> text]

Slot(k, v) == [k |-> k, v |-> v]

RedactedObject == Obj({"str"}, <<>>, <<"<redacted>">>)

DatetimeObject == Obj({"datetime"}, <<>>, <<"1970-01-01T00:00:00.000000", "+0000">>)

----------------------------------------------------------------------------
(* The input graphs.  A template is the class of an input object and the   *)
(* keys of its child slots; the children are chosen among the objects of   *)
(* the graph, so that cycles, self references and shared children occur.   *)
Template(caps, keys, text) == [caps |-> caps, keys |-> keys, text |-> text]

LeafTemplates ==
    { Template({"__sensitive__", "__dict__"}, <<>>, <<"secret">>),
      Template({"datetime"}, <<>>, DatetimeObject.text),
      Template({"int"}, <<>>, <<"1">>) }

ContainerTemplates ==
    { Template({"Enum", "__dict__"}, <<NoKey>>, <<>>),
      Template({"list"}, <<>>, <<>>),
      Template({"dict"}, <<KeyA>>, <<>>),
      Template({"dict"}, <<KeyPrivate>>, <<>>),
      Template({"dict"}, <<KeyOne>>, <<>>),
      Template({"dict"}, <<KeyA, KeyPrivate>>, <<>>),
      Template({"list"}, <<NoKey>>, <<>>),
      Template({"list"}, <<NoKey, NoKey>>, <<>>),
      Template({"tuple"}, <<NoKey>>, <<>>),
      Template({"set"}, <<NoKey>>, <<>>),
      Template({"model_dump", "__dict__"}, <<KeyPrivate>>, <<>>),
      Template({"dict()", "__dict__"}, <<KeyPrivate>>, <<>>),
      Template({"__slots__"}, <<KeyPrivate>>, <<>>),
      Template({"__dict__"}, <<KeyPrivate>>, <<>>),
      Template({"__items__"}, <<KeyPrivate>>, <<>>) }

InputTemplates == LeafTemplates \cup ContainerTemplates

(* The templates of the graphs built from mappings, sequences and scalars *)
(* only, and of the graphs that put enums next to sequences.               *)
PlainTemplates ==
    { t \in InputTemplates : t.caps \in {{"dict"}, {"list"}, {"tuple"}, {"set"}, {"int"}} }

EnumTemplates ==
    { t \in InputTemplates :
        /\ t.caps \in {{"Enum", "__dict__"}, {"list"}, {"tuple"}, {"dict"}, {"int"}}
        /\ \A i \in 1..Len(t.keys) : t.keys[i] \in {NoKey, KeyA} }

(* The templates of the inputs of two calls in progress together.          *)
TwoCallTemplates == { t \in InputTemplates : t.caps \in {{"Enum", "__dict__"}, {"int"}} \/ t = Template({"list"}, <<NoKey>>, <<>>) }

(* The objects a template stands for when its children are among kids.     *)
Instances(t, kids) ==
    { Obj(t.caps, [i \in 1..Len(t.keys) |-> Slot(t.keys[i], In(ch[i]))], t.text) :
        ch \in [1..Len(t.keys) -> kids] }

InputObjects(templates, kids) == UNION { Instances(t, kids) : t \in templates }

(* Every input heap also holds the interned literal "<redacted>".          *)
Literals == (RedactedLiteral :> RedactedObject)

NoLookup == [a \in {} |-> NoAddr]

----------------------------------------------------------------------------
(* isinstance and the values of a container.                               *)
IsDict(o) == "dict" \in o.caps

IsList(o) == "list" \in o.caps

IsSequence(o) == o.caps \cap {"list", "tuple", "set"} /= {}

Values(o) == [i \in 1..Len(o.items) |-> o.items[i].v]

Keys(o) == [i \in 1..Len(o.items) |-> o.items[i].k]

(* DateUtils.datetime_to_string(node, DateUtils.iso_8061_format): strftime *)
(* writes the stamp and, for %z, the offset of an aware datetime and       *)
(* nothing for a naive one.                                                *)
datetime_to_string(text) ==
    IF text[2] = "naive" THEN <<text[1]>> ELSE <<text[1] , text[2]>>

(* The outcomes of shallow_normalize: an object that already exists, a     *)
(* newly built one, or an exception.                                       *)
Existing(h, ref) == [error |-> "none", ref |-> ref, obj |-> h[ref]]

Built(ref, obj) == [error |-> "none", ref |-> ref, obj |-> obj]

Raises(error) == [error |-> error, ref |-> NoAddr, obj |-> RedactedObject]

(* A comprehension that forgets the startswith test and keeps every key.   *)
FilterPrivate_KeepsAll(items) == items

(* {key: value for key, value in items if not key.startswith("_")}: an int *)
(* key has no startswith, so the comprehension raises AttributeError.      *)
FilterPrivate(items) == SelectSeq(items, LAMBDA s : ~StartsWithUnderscore(s.k))

AllStrKeys(items) == \A i \in 1..Len(items) : items[i].k.isStr

FilteredDict(ref, items) ==
    IF AllStrKeys(items)
    THEN Built(ref, Obj({"dict"}, FilterPrivate(items), <<>>))
    ELSE Raises("AttributeError")

(* JsonPreSerializer.shallow_normalize, first matching rule wins.          *)
shallow_normalize(h, c, a) ==
    LET node == h[a] IN
    IF "__sensitive__" \in node.caps THEN Existing(h, RedactedLiteral)
    ELSE IF "Enum" \in node.caps THEN Existing(h, node.items[1].v)
    ELSE IF IsDict(node) THEN FilteredDict(Fresh(c, a), node.items)
    ELSE IF IsSequence(node)
         THEN Built(Fresh(c, a), Obj({"list"}, [i \in 1..Len(node.items) |-> Slot(NoKey, node.items[i].v)], <<>>))
    ELSE IF "model_dump" \in node.caps THEN Built(Fresh(c, a), Obj({"dict"}, node.items, <<>>))
    ELSE IF "dict()" \in node.caps THEN Built(Fresh(c, a), Obj({"dict"}, node.items, <<>>))
    ELSE IF "__slots__" \in node.caps THEN FilteredDict(Fresh(c, a), node.items)
    ELSE IF "__dict__" \in node.caps THEN FilteredDict(Fresh(c, a), node.items)
    ELSE IF "__items__" \in node.caps THEN FilteredDict(Fresh(c, a), node.items)
    ELSE IF "datetime" \in node.caps
         THEN Built(Fresh(c, a), Obj({"str"}, <<>>, datetime_to_string(node.text)))
    ELSE Existing(h, a)

(* No child is queued.                                                     *)
create_stack_elements_None(h, ref) == <<>>

(* JsonPreSerializer.create_stack_elements: the children of a dict or of a *)
(* list, tuple or set; any other value is queued itself.                   *)
create_stack_elements(h, ref) ==
    IF IsDict(h[ref]) \/ IsSequence(h[ref]) THEN Values(h[ref]) ELSE <<ref>>

----------------------------------------------------------------------------
(* Before a call starts: the roots of the calls that will run are known,   *)
(* the other calls stay idle.                                              *)
InitCall(roots) ==
    /\ context_var = [c \in CallIds |-> IF c \in DOMAIN roots THEN roots[c] ELSE NoAddr]
    /\ node_lookup = [c \in CallIds |-> NoLookup]
    /\ traversal_stack = [c \in CallIds |-> <<>>]
    /\ visited_element_ids = [c \in CallIds |-> {}]
    /\ pc = [c \in CallIds |-> IF c \in DOMAIN roots THEN "start" ELSE "idle"]
    /\ result = [c \in CallIds |-> NoAddr]

(* What Python lets a program build.  The elements of a set are hashable,  *)
(* and an enum member or a tuple gets its children when it is created, so  *)
(* no cycle runs through such objects alone.                               *)
Hashable(o) == o.caps \cap {"dict", "list", "set", "tuple"} = {}

Immutable(o) == o.caps \cap {"Enum", "tuple"} /= {}

RECURSIVE ImmutableReach(_, _, _)
ImmutableReach(h, frontier, seen) ==
    IF frontier = {} THEN seen
    ELSE LET next == UNION { { h[a].items[i].v : i \in 1..Len(h[a].items) } :
                               a \in { b \in frontier : Immutable(h[b]) } } \ (seen \cup frontier)
         IN ImmutableReach(h, next, seen \cup frontier)

Constructible(h) ==
    \A a \in DOMAIN h :
        /\ "set" \in h[a].caps => \A i \in 1..Len(h[a].items) : Hashable(h[h[a].items[i].v])
        /\ Immutable(h[a]) =>
              a \notin ImmutableReach(h, { h[a].items[i].v : i \in 1..Len(h[a].items) }, {})

(* The heap that holds the objects g[n] at In(n), and the literals.        *)
HeapOf(g) == Literals @@ [a \in { In(n) : n \in DOMAIN g } |-> g[a[2]]]

(* The graphs of the objects objs whose children are any of the objects.   *)
Graphs(objs, templates) ==
    { h \in { HeapOf(g) : g \in [objs -> InputObjects(templates, objs)] } : Constructible(h) }

(* The acyclic graphs: the children of an object come after it.            *)
RECURSIVE AcyclicObjects(_, _, _)
AcyclicObjects(n, last, templates) ==
    IF n > last THEN { [m \in {} |-> RedactedObject] }
    ELSE { (n :> o) @@ g : o \in InputObjects(templates, (n + 1)..last),
                           g \in AcyclicObjects(n + 1, last, templates) }

AcyclicGraphs(last, templates) ==
    { h \in { HeapOf(g) : g \in AcyclicObjects(1, last, templates) } : Constructible(h) }

(* One call on any graph of NumObj objects, rooted at the first.           *)
Init ==
    /\ heap \in Graphs(1..NumObj, InputTemplates)
    /\ original = heap
    /\ InitCall(1 :> In(1))
    /\ UtilsIdle

(* One call on a graph of enums, sequences and mappings, one object more.  *)
InitEnum ==
    /\ heap \in Graphs(1..(NumObj + 1), EnumTemplates)
    /\ original = heap
    /\ InitCall(1 :> In(1))
    /\ UtilsIdle

(* One call on an acyclic graph of mappings, sequences and scalars.        *)
InitAcyclic ==
    /\ heap \in AcyclicGraphs(NumObj + 1, PlainTemplates)
    /\ original = heap
    /\ InitCall(1 :> In(1))
    /\ UtilsIdle

(* The three objects kept on the class and shared by every call.           *)
Locals_Shared(c) == 1

(* node_lookup, traversal_stack and visited_element_ids are locals of the  *)
(* call (lines 29, 32, 35): call c works on its own three objects.         *)
Locals(c) == c

Stack(c) == traversal_stack[Locals(c)]

(* The visited set is never consulted.                                     *)
Visited_Empty(c) == {}

Visited(c) == visited_element_ids[Locals(c)]

Lookup(c) == node_lookup[Locals(c)]

Top(c) == Stack(c)[Len(Stack(c))]

Popped(c) == SubSeq(Stack(c), 1, Len(Stack(c)) - 1)

(* Lines 25-35: create the registry, the stack seeded with the root, and   *)
(* the visited set.                                                        *)
Start(c) ==
    /\ pc[c] = "start"
    /\ node_lookup' = [node_lookup EXCEPT ![Locals(c)] = NoLookup]
    /\ traversal_stack' = [traversal_stack EXCEPT ![Locals(c)] = <<context_var[c]>>]
    /\ visited_element_ids' = [visited_element_ids EXCEPT ![Locals(c)] = {}]
    /\ pc' = [pc EXCEPT ![c] = "phase1"]
    /\ UNCHANGED <<heap, original, context_var, result>>
    /\ UNCHANGED utilVars

(* The work item at position i of the stack, and the stack without it.  The *)
(* code removes the last one: traversal_stack.pop() (lines 39 and 63).     *)
ItemAt(c, i) == Stack(c)[i]

(* A removal that also drops the items behind the removed one.             *)
Without_Truncates(c, i) == SubSeq(Stack(c), 1, i - 1)

Without(c, i) == SubSeq(Stack(c), 1, i - 1) \o SubSeq(Stack(c), i + 1, Len(Stack(c)))

(* Lines 38-41 and 62-65: the removed id is already visited, continue.     *)
Phase1SkipAt(c, i) ==
    /\ pc[c] = "phase1"
    /\ ItemAt(c, i) \in Visited(c)
    /\ traversal_stack' = [traversal_stack EXCEPT ![Locals(c)] = Without(c, i)]
    /\ UNCHANGED <<heap, original, context_var, node_lookup, visited_element_ids, pc, result>>
    /\ UNCHANGED utilVars

Phase1Skip(c) ==
    /\ Len(Stack(c)) > 0
    /\ Phase1SkipAt(c, Len(Stack(c)))

(* Lines 38-55: normalize the removed node, queue its children, register it. *)
Phase1VisitAt(c, i) ==
    /\ pc[c] = "phase1"
    /\ ItemAt(c, i) \notin Visited(c)
    /\ visited_element_ids' = [visited_element_ids EXCEPT ![Locals(c)] = @ \cup {ItemAt(c, i)}]
    /\ LET child_nodes == shallow_normalize(heap, c, ItemAt(c, i)) IN
       IF child_nodes.error /= "none"
       THEN /\ pc' = [pc EXCEPT ![c] = child_nodes.error]
            /\ traversal_stack' = [traversal_stack EXCEPT ![Locals(c)] = Without(c, i)]
            /\ UNCHANGED <<heap, node_lookup>>
       ELSE /\ heap' = (child_nodes.ref :> child_nodes.obj) @@ heap
            /\ traversal_stack' = [traversal_stack EXCEPT ![Locals(c)] =
                                      Without(c, i) \o create_stack_elements(heap', child_nodes.ref)]
            /\ node_lookup' = [node_lookup EXCEPT ![Locals(c)] = (ItemAt(c, i) :> child_nodes.ref) @@ @]
            /\ UNCHANGED pc
    /\ UNCHANGED <<original, context_var, result>>
    /\ UNCHANGED utilVars

Phase1Visit(c) ==
    /\ Len(Stack(c)) > 0
    /\ Phase1VisitAt(c, Len(Stack(c)))

(* Lines 57-59: the stack is empty; reseed it with the root, clear visited. *)
Restart(c) ==
    /\ pc[c] = "phase1"
    /\ Len(Stack(c)) = 0
    /\ traversal_stack' = [traversal_stack EXCEPT ![Locals(c)] = <<context_var[c]>>]
    /\ visited_element_ids' = [visited_element_ids EXCEPT ![Locals(c)] = {}]
    /\ pc' = [pc EXCEPT ![c] = "phase2"]
    /\ UNCHANGED <<heap, original, context_var, node_lookup, result>>
    /\ UNCHANGED utilVars

Phase2SkipAt(c, i) ==
    /\ pc[c] = "phase2"
    /\ ItemAt(c, i) \in Visited(c)
    /\ traversal_stack' = [traversal_stack EXCEPT ![Locals(c)] = Without(c, i)]
    /\ UNCHANGED <<heap, original, context_var, node_lookup, visited_element_ids, pc, result>>
    /\ UNCHANGED utilVars

Phase2Skip(c) ==
    /\ Len(Stack(c)) > 0
    /\ Phase2SkipAt(c, Len(Stack(c)))

(* node_lookup[id(value)] for every value of the entry: every lookup finds *)
(* a key, or the comprehension raises KeyError.                            *)
LookupsSucceed(lookup, values) == \A i \in 1..Len(values) : values[i] \in DOMAIN lookup

(* The entry is cleared and not filled again.                              *)
node_children_None(lookup, items) == <<>>

(* Lines 74/84: the entry's items with each value replaced by its entry.   *)
node_children(lookup, items) == [i \in 1..Len(items) |-> Slot(items[i].k, lookup[items[i].v])]

(* Lines 62-90: rewrite the child slots of the removed node's entry in     *)
(* place (clear, then update/extend) and queue the original children.      *)
Phase2VisitAt(c, i) ==
    /\ pc[c] = "phase2"
    /\ ItemAt(c, i) \notin Visited(c)
    /\ visited_element_ids' = [visited_element_ids EXCEPT ![Locals(c)] = @ \cup {ItemAt(c, i)}]
    /\ IF ItemAt(c, i) \notin DOMAIN Lookup(c)
       THEN /\ pc' = [pc EXCEPT ![c] = "KeyError"]
            /\ traversal_stack' = [traversal_stack EXCEPT ![Locals(c)] = Without(c, i)]
            /\ UNCHANGED heap
       ELSE LET pre_serialized_node == Lookup(c)[ItemAt(c, i)]
                entry == heap[pre_serialized_node] IN
            IF IsDict(entry) \/ IsList(entry)
            THEN IF LookupsSucceed(Lookup(c), Values(entry))
                 THEN /\ heap' = [heap EXCEPT ![pre_serialized_node].items =
                                      node_children(Lookup(c), entry.items)]
                      /\ traversal_stack' = [traversal_stack EXCEPT ![Locals(c)] =
                                                Without(c, i) \o Values(entry)]
                      /\ UNCHANGED pc
                 ELSE /\ pc' = [pc EXCEPT ![c] = "KeyError"]
                      /\ traversal_stack' = [traversal_stack EXCEPT ![Locals(c)] = Without(c, i)]
                      /\ UNCHANGED heap
            ELSE /\ traversal_stack' = [traversal_stack EXCEPT ![Locals(c)] = Without(c, i)]
                 /\ UNCHANGED <<heap, pc>>
    /\ UNCHANGED <<original, context_var, node_lookup, result>>
    /\ UNCHANGED utilVars

Phase2Visit(c) ==
    /\ Len(Stack(c)) > 0
    /\ Phase2VisitAt(c, Len(Stack(c)))

(* Line 93: return node_lookup[context_var_id], or KeyError without it.    *)
Return(c) ==
    /\ pc[c] = "phase2"
    /\ Len(Stack(c)) = 0
    /\ IF context_var[c] \in DOMAIN Lookup(c)
       THEN /\ result' = [result EXCEPT ![c] = Lookup(c)[context_var[c]]]
            /\ pc' = [pc EXCEPT ![c] = "done"]
       ELSE /\ pc' = [pc EXCEPT ![c] = "KeyError"]
            /\ UNCHANGED result
    /\ UNCHANGED <<heap, original, context_var, node_lookup, traversal_stack, visited_element_ids>>
    /\ UNCHANGED utilVars

Next ==
    \E c \in CallIds :
        \/ Start(c)
        \/ Phase1Skip(c)
        \/ Phase1Visit(c)
        \/ Restart(c)
        \/ Phase2Skip(c)
        \/ Phase2Visit(c)
        \/ Return(c)

Spec == Init /\ [][Next]_vars

(* Two calls on inputs that share no object: the graph of the first call   *)
(* has NumObj objects, the graph of the second one object less.            *)
FirstObjs == 1..NumObj

SecondObjs == (NumObj + 1)..(2 * NumObj - 1)

InitTwo ==
    /\ heap \in { h1 @@ h2 : h1 \in Graphs(FirstObjs, TwoCallTemplates),
                             h2 \in Graphs(SecondObjs, TwoCallTemplates) }
    /\ original = heap
    /\ InitCall((1 :> In(1)) @@ (2 :> In(NumObj + 1)))
    /\ UtilsIdle

SpecTwo == InitTwo /\ [][Next]_vars

SpecEnum == InitEnum /\ [][Next]_vars

SpecAcyclic == InitAcyclic /\ [][Next]_vars

(* A running call keeps executing its loops.                               *)
FairSpec == Spec /\ WF_vars(Next)

----------------------------------------------------------------------------
(* Notions the properties are stated in.                                   *)
Errors == {"AttributeError", "KeyError"}

Done(c) == pc[c] = "done"

Halted(c) == pc[c] \in {"done"} \cup Errors

Children(h, a) == { h[a].items[i].v : i \in 1..Len(h[a].items) }

RECURSIVE ReachFrom(_, _, _)
ReachFrom(h, frontier, seen) ==
    IF frontier = {} THEN seen
    ELSE LET next == UNION { Children(h, a) : a \in frontier } \ (seen \cup frontier)
         IN ReachFrom(h, next, seen \cup frontier)

(* The objects of heap h that can be reached from a through child slots.   *)
Reachable(h, a) == ReachFrom(h, {a}, {})

(* The output of a finished call: what its result reaches.                 *)
Output(c) == Reachable(heap, result[c])

(* The input graph of a call.                                              *)
Input(c) == Reachable(original, context_var[c])

IsMapping(o) == o.caps \cap {"dict", "model_dump", "dict()", "__slots__", "__dict__", "__items__"} /= {}

(* A container as the caller sees it: not a marked value and not an enum.  *)
IsContainer(o) == o.caps \cap {"__sensitive__", "Enum"} = {} /\ (IsMapping(o) \/ IsSequence(o))

(* The slots of output node out that correspond to slot i of the input     *)
(* container o: the slot of the same key of a mapping, of the same index   *)
(* of a sequence.                                                          *)
Corresponding(o, i, out) ==
    IF IsSequence(o) /\ ~IsDict(o)
    THEN { j \in 1..Len(heap[out].items) : j = i }
    ELSE { j \in 1..Len(heap[out].items) : heap[out].items[j].k = o.items[i].k }

(* The input containers of call c whose normalized node is in the output.  *)
OutputParents(c) ==
    { p \in DOMAIN node_lookup[c] \cap DOMAIN original :
        /\ IsContainer(original[p])
        /\ node_lookup[c][p] \notin DOMAIN original
        /\ node_lookup[c][p] \in Output(c) }

----------------------------------------------------------------------------
(* C1: for every finite input graph the call terminates with a result:     *)
(* both loops empty the stack and line 93 returns.                         *)
C1_TerminatesWithResult == <>Done(1)

(* What does hold: every call halts, by returning or by raising.           *)
EventuallyHalts == <>Halted(1)

(* C2: when a mapping or sequence of the input holds itself in a child     *)
(* slot, the corresponding slot of its output node holds that output node, *)
(* which is a new object and not the input node.                           *)
C2_SelfReferencePreserved ==
    \A c \in CallIds : Done(c) =>
        \A p \in DOMAIN node_lookup[c] \cap DOMAIN original :
            (IsDict(original[p]) \/ IsSequence(original[p])) /\ "Enum" \notin original[p].caps =>
                \A i \in 1..Len(original[p].items) :
                    original[p].items[i].v = p =>
                        /\ node_lookup[c][p] /= p
                        /\ node_lookup[c][p] \notin DOMAIN original
                        /\ IsSequence(original[p]) => Corresponding(original[p], i, node_lookup[c][p]) /= {}
                        /\ \A j \in Corresponding(original[p], i, node_lookup[c][p]) :
                               heap[node_lookup[c][p]].items[j].v = node_lookup[c][p]

(* C2 for the containers whose normalized node the result reaches: this    *)
(* part of the property is what the walker does establish.                 *)
SelfReferencePreservedInOutput ==
    \A c \in CallIds : Done(c) =>
        \A p \in OutputParents(c) :
            \A i \in 1..Len(original[p].items) :
                original[p].items[i].v = p =>
                    \A j \in Corresponding(original[p], i, node_lookup[c][p]) :
                        heap[node_lookup[c][p]].items[j].v = node_lookup[c][p]

(* The node that stands for the input object p in the output: its registry *)
(* entry, or p itself when the walker registered nothing for it.           *)
OutNode(c, p) == IF p \in DOMAIN node_lookup[c] THEN node_lookup[c][p] ELSE p

InputContainers(c) ==
    { p \in Input(c) : IsContainer(original[p]) /\ OutNode(c, p) \in Output(c) }

(* C3: two child slots of the input that hold the same object have         *)
(* corresponding output slots that hold one and the same object, not two   *)
(* different ones.                                                         *)
C3_SharedChildPreserved ==
    \A c \in CallIds : Done(c) =>
        \A p1 \in InputContainers(c), p2 \in InputContainers(c) :
            \A i1 \in 1..Len(original[p1].items), i2 \in 1..Len(original[p2].items) :
                original[p1].items[i1].v = original[p2].items[i2].v =>
                    \A j1 \in Corresponding(original[p1], i1, OutNode(c, p1)),
                       j2 \in Corresponding(original[p2], i2, OutNode(c, p2)) :
                        heap[OutNode(c, p1)].items[j1].v = heap[OutNode(c, p2)].items[j2].v

(* C3 for the containers whose normalized node the result reaches.         *)
SharedChildPreservedInOutput ==
    \A c \in CallIds : Done(c) =>
        \A p1 \in OutputParents(c), p2 \in OutputParents(c) :
            \A i1 \in 1..Len(original[p1].items), i2 \in 1..Len(original[p2].items) :
                original[p1].items[i1].v = original[p2].items[i2].v =>
                    \A j1 \in Corresponding(original[p1], i1, node_lookup[c][p1]),
                       j2 \in Corresponding(original[p2], i2, node_lookup[c][p2]) :
                        /\ heap[node_lookup[c][p1]].items[j1].v = heap[node_lookup[c][p2]].items[j2].v
                        /\ original[p1].items[i1].v \in DOMAIN node_lookup[c]
                        /\ heap[node_lookup[c][p1]].items[j1].v = node_lookup[c][original[p1].items[i1].v]

(* C4: the call never changes an object of the input graph: every input    *)
(* object keeps its keys, its elements and their order.                    *)
C4_InputNotMutated == \A a \in DOMAIN original : heap[a] = original[a]

(* C5: no mapping of the output has a key that starts with an underscore.  *)
C5_NoPrivateKeyInOutput ==
    \A c \in CallIds : Done(c) =>
        \A a \in Output(c) :
            IsDict(heap[a]) =>
                \A i \in 1..Len(heap[a].items) :
                    ~(Len(heap[a].items[i].k.chars) > 0 /\ heap[a].items[i].k.chars[1] = "_")

(* C6: no value that carries the redaction marker is in the output; each   *)
(* is represented by the placeholder "<redacted>".                         *)
C6_MarkedValuesRedacted ==
    \A c \in CallIds : Done(c) =>
        /\ \A a \in Output(c) : "__sensitive__" \notin heap[a].caps
        /\ \A a \in DOMAIN node_lookup[c] :
               "__sensitive__" \in heap[a].caps => heap[node_lookup[c][a]] = RedactedObject

(* C7: when phase 2 has ended every registry entry is a mapping, a list or *)
(* a JSON scalar built or passed through by the walker, and each of its    *)
(* child slots holds a registry entry: nothing raw is left.                *)
JsonNode(o) == o.caps \subseteq {"dict", "list", "str", "int"}

C7_RegistryHoldsNoRawValue ==
    \A c \in CallIds : Done(c) =>
        \A n \in DOMAIN node_lookup[c] :
            LET entry == node_lookup[c][n] IN
            /\ JsonNode(heap[entry])
            /\ \A i \in 1..Len(heap[entry].items) :
                   \E m \in DOMAIN node_lookup[c] : heap[entry].items[i].v = node_lookup[c][m]

(* C8: no call raises, whatever the input value.                           *)
C8_NeverRaises == \A c \in CallIds : pc[c] \notin Errors

(* C9: on an acyclic input of mappings, sequences and scalars the output   *)
(* has the shape of the input: a mapping keeps exactly the keys without a  *)
(* leading underscore, a sequence keeps its length, a scalar is unchanged, *)
(* and every kept slot holds the output of the child it held.              *)
PublicKeys(o) == SelectSeq(Keys(o), LAMBDA k : ~(Len(k.chars) > 0 /\ k.chars[1] = "_"))

PublicValues(o) ==
    Values([items |-> SelectSeq(o.items, LAMBDA s : ~(Len(s.k.chars) > 0 /\ s.k.chars[1] = "_"))])

SameShape(c, p) ==
    LET o == original[p]
        out == heap[node_lookup[c][p]] IN
    IF IsDict(o)
    THEN /\ out.caps = {"dict"}
         /\ Keys(out) = PublicKeys(o)
         /\ \A j \in 1..Len(out.items) :
                /\ PublicValues(o)[j] \in DOMAIN node_lookup[c]
                /\ out.items[j].v = node_lookup[c][PublicValues(o)[j]]
    ELSE IF IsSequence(o)
    THEN /\ out.caps = {"list"}
         /\ Len(out.items) = Len(o.items)
         /\ \A j \in 1..Len(o.items) :
                /\ o.items[j].v \in DOMAIN node_lookup[c]
                /\ out.items[j].v = node_lookup[c][o.items[j].v]
    ELSE /\ node_lookup[c][p] = p
         /\ out = o

C9_AcyclicOutputHasInputShape ==
    \A c \in CallIds : Done(c) =>
        /\ context_var[c] \in DOMAIN node_lookup[c]
        /\ result[c] = node_lookup[c][context_var[c]]
        /\ \A p \in DOMAIN node_lookup[c] : SameShape(c, p)

C9_Witness ==
    /\ Done(1)
    /\ original[In(1)].caps = {"dict"}
    /\ Keys(original[In(1)]) = <<KeyA, KeyPrivate>>
    /\ original[In(1)].items[1].v = In(2)
    /\ original[In(2)].caps = {"tuple"}
    /\ original[In(2)].items[1].v = In(3)
    /\ Keys(heap[result[1]]) = <<KeyA>>
    /\ heap[heap[result[1]].items[1].v].caps = {"list"}
    /\ heap[heap[result[1]].items[1].v].items[1].v = In(3)

----------------------------------------------------------------------------
(* prepare_for_serialization run to its end on heap h with nothing else    *)
(* running: the two loops as coded, last in first out.                     *)
Outcome(error, h, lookup, root, visited) ==
    [pc |-> error, heap |-> h, node_lookup |-> lookup, visited_element_ids |-> visited,
     result |-> IF error = "done" THEN lookup[root] ELSE NoAddr]

RECURSIVE Phase2Alone(_, _, _, _, _, _)
Phase2Alone(c, root, h, lookup, stack, visited) ==
    IF Len(stack) = 0
    THEN Outcome(IF root \in DOMAIN lookup THEN "done" ELSE "KeyError", h, lookup, root, visited)
    ELSE LET top == stack[Len(stack)]
             rest == SubSeq(stack, 1, Len(stack) - 1) IN
         IF top \in visited THEN Phase2Alone(c, root, h, lookup, rest, visited)
         ELSE IF top \notin DOMAIN lookup THEN Outcome("KeyError", h, lookup, root, visited \cup {top})
         ELSE LET entry == h[lookup[top]] IN
              IF IsDict(entry) \/ IsList(entry)
              THEN IF LookupsSucceed(lookup, Values(entry))
                   THEN Phase2Alone(c, root,
                                    [h EXCEPT ![lookup[top]].items = node_children(lookup, entry.items)],
                                    lookup, rest \o Values(entry), visited \cup {top})
                   ELSE Outcome("KeyError", h, lookup, root, visited \cup {top})
              ELSE Phase2Alone(c, root, h, lookup, rest, visited \cup {top})

RECURSIVE Phase1Alone(_, _, _, _, _, _)
Phase1Alone(c, root, h, lookup, stack, visited) ==
    IF Len(stack) = 0
    THEN Phase2Alone(c, root, h, lookup, <<root>>, {})
    ELSE LET top == stack[Len(stack)]
             rest == SubSeq(stack, 1, Len(stack) - 1) IN
         IF top \in visited THEN Phase1Alone(c, root, h, lookup, rest, visited)
         ELSE LET child_nodes == shallow_normalize(h, c, top)
                  h2 == (child_nodes.ref :> child_nodes.obj) @@ h IN
              IF child_nodes.error /= "none" THEN Outcome(child_nodes.error, h, lookup, root, visited \cup {top})
              ELSE Phase1Alone(c, root, h2, (top :> child_nodes.ref) @@ lookup,
                               rest \o create_stack_elements(h2, child_nodes.ref),
                               visited \cup {top})

RunAlone(c) == Phase1Alone(c, context_var[c], original, NoLookup, <<context_var[c]>>, {})

(* C10: the registry, the visited set and the stack are made in the call   *)
(* and belong to it: a call that runs interleaved with, before or after    *)
(* another call on an input sharing no object ends as it ends alone, with  *)
(* the same result, the same registry and the same output structure.       *)
C10_CallsAreIndependent ==
    \A c \in CallIds : Halted(c) =>
        LET alone == RunAlone(c) IN
        /\ pc[c] = alone.pc
        /\ result[c] = alone.result
        /\ Done(c) =>
              /\ Lookup(c) = alone.node_lookup
              /\ \A a \in Output(c) : heap[a] = alone.heap[a]

C10_Witness ==
    /\ Done(1)
    /\ Done(2)
    /\ "Enum" \in original[In(1)].caps
    /\ result[1] = In(2)
    /\ heap[In(2)] /= original[In(2)]
    /\ result[2] = Fresh(2, In(NumObj + 1))
    /\ heap[result[2]].items[1].v = result[2]

----------------------------------------------------------------------------
(* DictUtils.deep_merge (dict_utils.py).  A dictionary is an address and   *)
(* holds its items in insertion order; a value is an int or the address of *)
(* a dictionary.                                                           *)

(* Number of dictionaries on each side of a merge.                         *)
NumDicts == 2

(* Most pairs node_queue holds: a merge of two cyclic graphs never ends    *)
(* and its queue grows without bound.                                      *)
MaxQueue == 3

(* The n-th dictionary of a side, "source" or "target".                    *)
DictAddr(side, n) == <<side, n>>

SourceAddr(n) == DictAddr("source", n)

TargetAddr(n) == DictAddr("target", n)

NoneValue == [tag |-> "None", v |-> NoAddr]

IntValue(n) == [tag |-> "int", v |-> <<"int", n>>]

DictValue(a) == [tag |-> "dict", v |-> a]

(* isinstance(value, dict)                                                 *)
IsDictValue(value) == value.tag = "dict"

(* The keys of a dictionary, key in dictionary, and dictionary[key].       *)
KeysOf(d) == { d[i].k : i \in 1..Len(d) }

ValueAt(d, key) == d[CHOOSE i \in 1..Len(d) : d[i].k = key].v

(* The assignment of line 67 left out.                                     *)
WithItem_Dropped(d, key, value) == d

(* dictionary[key] = value for a key the dictionary does not hold.         *)
WithItem(d, key, value) == Append(d, Slot(key, value))

(* The dictionaries a side can hold: no key, the key a, or the keys a and  *)
(* b, each value the side's int or one of the dictionaries in refs.        *)
DictShapes == { <<>>, <<"a">>, <<"a", "b">> }

DictsOver(scalar, refs) ==
    UNION { { [i \in 1..Len(keys) |-> Slot(keys[i], vals[i])] :
                vals \in [1..Len(keys) -> {IntValue(scalar)} \cup { DictValue(a) : a \in refs }] } :
            keys \in DictShapes }

(* The graphs of one side: dictionary n nests itself or later ones.        *)
RECURSIVE SideGraphs(_, _, _, _)
SideGraphs(side, n, last, scalar) ==
    IF n > last THEN { <<>> }
    ELSE { (DictAddr(side, n) :> d) @@ g :
             d \in DictsOver(scalar, { DictAddr(side, m) : m \in n..last }),
             g \in SideGraphs(side, n + 1, last, scalar) }

(* deep_merge(source_dict, target_dict) is called on two graphs that share *)
(* no dictionary; target_dict may be None.                                 *)
InitMerge ==
    /\ dicts \in { s @@ t : s \in SideGraphs("source", 1, NumDicts, 0),
                            t \in SideGraphs("target", 1, NumDicts, 1) }
    /\ dicts0 = dicts
    /\ source_dict = DictValue(SourceAddr(1))
    /\ target_dict \in {DictValue(TargetAddr(1)), NoneValue}
    /\ node_queue = <<>>
    /\ merge_pc = "start"
    /\ merge_result = NoneValue
    /\ merged = {}
    /\ MergeRestIdle

(* Lines 52-53: the queue holds the pair of the two arguments.             *)
MergeStart ==
    /\ merge_pc = "start"
    /\ node_queue' = <<<<source_dict, target_dict>>>>
    /\ merge_pc' = "loop"
    /\ UNCHANGED <<dicts, dicts0, source_dict, target_dict, merge_result, merged>>
    /\ UNCHANGED mergeRest

(* Lines 61-67: the for loop over target_node.items(), from item i on.     *)
(* state.source is source_node as written so far, state.queue node_queue.  *)
RECURSIVE MergeItems(_, _, _)
MergeItems(target_items, i, state) ==
    IF i > Len(target_items) THEN state
    ELSE LET target_key == target_items[i].k
             target_value == target_items[i].v IN
         IF target_key \in KeysOf(state.source)
         THEN LET source_value == ValueAt(state.source, target_key) IN
              IF IsDictValue(source_value) /\ IsDictValue(target_value)
              THEN MergeItems(target_items, i + 1,
                       [state EXCEPT !.queue = Append(@, <<source_value, target_value>>)])
              ELSE MergeItems(target_items, i + 1, state)
         ELSE MergeItems(target_items, i + 1,
                  [state EXCEPT !.source = WithItem(@, target_key, target_value),
                                !.added = @ \cup {target_key}])

(* Lines 55-67: one iteration of the while loop.                           *)
MergeStep ==
    /\ merge_pc = "loop"
    /\ Len(node_queue) > 0
    /\ LET source_node == node_queue[1][1]
           target_node == node_queue[1][2] IN
       IF target_node = NoneValue
       THEN /\ node_queue' = Tail(node_queue)
            /\ UNCHANGED <<dicts, merged>>
       ELSE LET after == MergeItems(dicts[target_node.v], 1,
                             [source |-> dicts[source_node.v],
                              queue |-> Tail(node_queue),
                              added |-> {}]) IN
            /\ Len(after.queue) <= MaxQueue
            /\ dicts' = [dicts EXCEPT ![source_node.v] = after.source]
            /\ node_queue' = after.queue
            /\ merged' = merged \cup { [source |-> source_node.v, target |-> target_node.v,
                                        added |-> after.added] }
    /\ UNCHANGED <<dicts0, source_dict, target_dict, merge_pc, merge_result>>
    /\ UNCHANGED mergeRest

(* Lines 55 and 69: the queue is empty, return source_dict.                *)
MergeReturn ==
    /\ merge_pc = "loop"
    /\ Len(node_queue) = 0
    /\ merge_pc' = "done"
    /\ merge_result' = source_dict
    /\ UNCHANGED <<dicts, dicts0, source_dict, target_dict, node_queue, merged>>
    /\ UNCHANGED mergeRest

NextMerge ==
    \/ MergeStart
    \/ MergeStep
    \/ MergeReturn

SpecMerge == InitMerge /\ [][NextMerge]_vars

(* The pairs of dictionaries the merge reached, and the call has returned. *)
MergeDone == merge_pc = "done"

BothDicts(a, b) == IsDictValue(a) /\ IsDictValue(b)

(* C11: when the call has returned, every key that the two dictionaries of *)
(* a pair reached by the merge both held, with values that are not both    *)
(* dictionaries, holds in the source the value the target has for it.      *)
C11_TargetValueReplaces ==
    MergeDone =>
        \A pair \in merged :
            \A key \in KeysOf(dicts0[pair.source]) \cap KeysOf(dicts0[pair.target]) :
                ~BothDicts(ValueAt(dicts0[pair.source], key), ValueAt(dicts0[pair.target], key))
                    => ValueAt(dicts[pair.source], key) = ValueAt(dicts0[pair.target], key)

(* The returned object is source_dict itself.                              *)
ReturnsSourceItself == MergeDone => merge_result = source_dict

(* Every item a dictionary held when the call began is kept unchanged.     *)
ItemsKept ==
    \A a \in DOMAIN dicts0 :
        \A key \in KeysOf(dicts0[a]) :
            key \in KeysOf(dicts[a]) /\ ValueAt(dicts[a], key) = ValueAt(dicts0[a], key)

----------------------------------------------------------------------------
(* Singleton.__call__ (singleton.py), called by threads that instantiate   *)
(* SecureRandomBytesGenerator.  A thread may be switched out between any   *)
(* two of: the membership test of line 18, the construction on the right   *)
(* of line 19 (which runs __init__), the store of line 19 and the read of  *)
(* line 20.                                                                *)
Threads == {"t1", "t2", "t3"}

(* Number of instantiations each thread makes.                             *)
MaxCalls == 2

SingletonClasses == {"SecureRandomBytesGenerator"}

NoObject == <<"none", "none", 0>>

(* The object the thread builds in its n-th remaining call.                *)
NewObject(cls, t, n) == <<cls, t, n>>

InitSingleton ==
    /\ instances = <<>>
    /\ call_pc = [t \in Threads |-> "idle"]
    /\ created = [t \in Threads |-> NoObject]
    /\ returned = [t \in Threads |-> <<>>]
    /\ calls_left = [t \in Threads |-> MaxCalls]
    /\ constructed = {}
    /\ SingletonRestIdle

(* A thread evaluates cls(): __call__ begins.                              *)
SingletonCall(t, cls) ==
    /\ call_pc[t] = "idle"
    /\ calls_left[t] > 0
    /\ calls_left' = [calls_left EXCEPT ![t] = @ - 1]
    /\ call_pc' = [call_pc EXCEPT ![t] = "test"]
    /\ UNCHANGED <<instances, created, returned, constructed>>
    /\ UNCHANGED singletonRest

(* Line 18: if cls not in cls._instances                                   *)
SingletonTest(t, cls) ==
    /\ call_pc[t] = "test"
    /\ call_pc' = [call_pc EXCEPT ![t] = IF cls \notin DOMAIN instances
                                          THEN "construct" ELSE "return"]
    /\ UNCHANGED <<instances, created, returned, calls_left, constructed>>
    /\ UNCHANGED singletonRest

(* Line 19, right-hand side: super().__call__ builds a new object.         *)
SingletonConstruct(t, cls) ==
    /\ call_pc[t] = "construct"
    /\ created' = [created EXCEPT ![t] = NewObject(cls, t, calls_left[t])]
    /\ constructed' = constructed \cup {NewObject(cls, t, calls_left[t])}
    /\ call_pc' = [call_pc EXCEPT ![t] = "store"]
    /\ UNCHANGED <<instances, returned, calls_left>>
    /\ UNCHANGED singletonRest

(* Line 19, the store: cls._instances[cls] = the new object.               *)
SingletonStore(t, cls) ==
    /\ call_pc[t] = "store"
    /\ instances' = (cls :> created[t]) @@ instances
    /\ call_pc' = [call_pc EXCEPT ![t] = "return"]
    /\ UNCHANGED <<created, returned, calls_left, constructed>>
    /\ UNCHANGED singletonRest

(* Line 20: return cls._instances[cls]                                     *)
SingletonReturn(t, cls) ==
    /\ call_pc[t] = "return"
    /\ returned' = [returned EXCEPT ![t] = Append(@, instances[cls])]
    /\ call_pc' = [call_pc EXCEPT ![t] = "idle"]
    /\ UNCHANGED <<instances, created, calls_left, constructed>>
    /\ UNCHANGED singletonRest

NextSingleton ==
    \E t \in Threads, cls \in SingletonClasses :
        \/ SingletonCall(t, cls)
        \/ SingletonTest(t, cls)
        \/ SingletonConstruct(t, cls)
        \/ SingletonStore(t, cls)
        \/ SingletonReturn(t, cls)

SpecSingleton == InitSingleton /\ [][NextSingleton]_vars

(* The objects the instantiations have returned so far.                    *)
ReturnedObjects == UNION { { returned[t][i] : i \in 1..Len(returned[t]) } : t \in Threads }

(* C12: at most one instance is ever constructed, and every instantiation  *)
(* by any thread returns that one object.                                  *)
C12_OneInstanceOnly ==
    /\ Cardinality(constructed) <= 1
    /\ Cardinality(ReturnedObjects) <= 1
    /\ ReturnedObjects \subseteq constructed

----------------------------------------------------------------------------
(* SecureRandomIntGenerator (secure_random_int_generator.py).  The entropy *)
(* source returns any bytes_needed bytes.                                  *)

(* The constructor arguments lie in -MaxBound..MaxBound, and for the lower *)
(* bound 0 also around the largest range one byte covers.                  *)
MaxBound == 3

BitsPerByte == 8

RECURSIVE Pow2(_)
Pow2(n) == IF n = 0 THEN 1 ELSE 2 * Pow2(n - 1)

(* int.bit_length() of a positive int.                                     *)
RECURSIVE bit_length(_)
bit_length(n) == IF n = 0 THEN 0 ELSE 1 + bit_length(n \div 2)

(* int.from_bytes(random_bytes, byteorder="big")                           *)
RECURSIVE from_bytes(_)
from_bytes(random_bytes) ==
    IF Len(random_bytes) = 0 THEN 0
    ELSE from_bytes(SubSeq(random_bytes, 1, Len(random_bytes) - 1)) * Pow2(BitsPerByte)
             + random_bytes[Len(random_bytes)]

(* What entropy_source.next(number_of_bytes) can return.                   *)
NextBytes(number_of_bytes) == [1..number_of_bytes -> 0..(Pow2(BitsPerByte) - 1)]

(* No value is rejected.                                                   *)
RejectionThreshold_None(max, range) == max

(* Line 60: max_value - (max_value % range_size)                           *)
RejectionThreshold(max, range) == max - (max % range)

RandomArguments ==
    { <<l, u>> : l \in (-MaxBound)..MaxBound, u \in (-MaxBound)..MaxBound }
        \cup { <<0, Pow2(BitsPerByte) + d>> : d \in {-2, -1, 0} }

NoInt == <<"none">>

InitRandom ==
    /\ \E arguments \in RandomArguments :
          /\ lower_bound = arguments[1]
          /\ upper_bound = arguments[2]
    /\ range_size = NoInt
    /\ bits_needed = NoInt
    /\ bytes_needed = NoInt
    /\ max_value = NoInt
    /\ rejection_threshold = NoInt
    /\ random_value = NoInt
    /\ generated = NoInt
    /\ random_pc = "new"
    /\ RandomRestIdle

(* Lines 46-60: __init__                                                   *)
RandomConstruct ==
    /\ random_pc = "new"
    /\ IF lower_bound >= upper_bound
       THEN /\ random_pc' = "ValueError"
            /\ UNCHANGED <<range_size, bits_needed, bytes_needed, max_value,
                           rejection_threshold>>
       ELSE LET size == upper_bound - lower_bound + 1
                bits == bit_length(size)
                bytes == (bits + 7) \div BitsPerByte
                max == Pow2(bytes * BitsPerByte) IN
            /\ range_size' = size
            /\ bits_needed' = bits
            /\ bytes_needed' = bytes
            /\ max_value' = max
            /\ rejection_threshold' = RejectionThreshold(max, size)
            /\ random_pc' = "ready"
    /\ UNCHANGED <<lower_bound, upper_bound, random_value, generated>>
    /\ UNCHANGED randomRest

(* Lines 95-96: draw bytes_needed bytes and read them as an int, in the    *)
(* first iteration of a call of generate or after a rejection.             *)
RandomDraw ==
    /\ random_pc \in {"ready", "rejected"}
    /\ \E random_bytes \in NextBytes(bytes_needed) : random_value' = from_bytes(random_bytes)
    /\ generated' = NoInt
    /\ random_pc' = "drawn"
    /\ UNCHANGED <<lower_bound, upper_bound, range_size, bits_needed, bytes_needed,
                   max_value, rejection_threshold>>
    /\ UNCHANGED randomRest

(* Lines 98-99: the value is below the threshold, return.                  *)
RandomAccept ==
    /\ random_pc = "drawn"
    /\ random_value < rejection_threshold
    /\ generated' = lower_bound + (random_value % range_size)
    /\ random_pc' = "returned"
    /\ UNCHANGED <<lower_bound, upper_bound, range_size, bits_needed, bytes_needed,
                   max_value, rejection_threshold, random_value>>
    /\ UNCHANGED randomRest

(* Lines 94 and 98: the value is rejected, the loop draws again.           *)
RandomReject ==
    /\ random_pc = "drawn"
    /\ ~(random_value < rejection_threshold)
    /\ random_pc' = "rejected"
    /\ UNCHANGED <<lower_bound, upper_bound, range_size, bits_needed, bytes_needed,
                   max_value, rejection_threshold, random_value, generated>>
    /\ UNCHANGED randomRest

NextRandom ==
    \/ RandomConstruct
    \/ RandomDraw
    \/ RandomAccept
    \/ RandomReject

SpecRandom == InitRandom /\ [][NextRandom]_vars

(* The number of accepted raw values generate maps onto r.                 *)
AcceptedFor(r) ==
    Cardinality({ v \in 0..(rejection_threshold - 1) : lower_bound + (v % range_size) = r })

(* C13: a generator built with lower_bound < upper_bound returns only      *)
(* integers of lower_bound..upper_bound; its rejection_threshold is a      *)
(* positive multiple of range_size not above max_value; every raw value    *)
(* the entropy source can give is below max_value; and the raw values      *)
(* below the threshold map onto every integer of the range equally often.  *)
C13_UniformInRange ==
    /\ random_pc = "returned" =>
          /\ lower_bound <= generated /\ generated <= upper_bound
          /\ random_value < rejection_threshold
    /\ random_pc = "drawn" => 0 <= random_value /\ random_value < max_value
    /\ random_pc = "ready" =>
          /\ lower_bound < upper_bound
          /\ rejection_threshold > 0
          /\ rejection_threshold % range_size = 0
          /\ rejection_threshold <= max_value
          /\ \A r \in lower_bound..upper_bound :
                AcceptedFor(r) = rejection_threshold \div range_size

(* A generator whose range does not divide the byte space has returned an  *)
(* integer for a raw value the modulo wrapped around, after a rejection.   *)
C13_Witness ==
    /\ random_pc = "returned"
    /\ rejection_threshold < max_value
    /\ random_value >= range_size
    /\ generated = lower_bound + 1

----------------------------------------------------------------------------
(* DotSyntaxResolver.get (dot_syntax_resolver.py).  A str is the sequence  *)
(* of its characters; a value is a dict, a list, a tuple, an object with   *)
(* attributes, or an int.                                                  *)

(* Length of the longest key.                                              *)
MaxKeyLen == 4

KeyChars == {"a", ".", "[", "]", "0", "1"}

Digits == {"0", "1"}

(* The str values of length at most n.                                     *)
Strings(n) == UNION { [1..m -> KeyChars] : m \in 0..n }

NoneKey == <<"None">>

IntOf(n) == [type |-> "int", items |-> <<>>, int |-> n]

NoneOf == [type |-> "None", items |-> <<>>, int |-> 0]

(* A dict or an object holds (name, value) items, a list or a tuple holds  *)
(* its elements under the empty name.                                      *)
Holding(type, items) == [type |-> type, items |-> items, int |-> 0]

Named(name, child) == [name |-> name, child |-> child]

Element(child) == Named(<<>>, child)

Parents ==
    { Holding("dict", << Named(<<"a">>, Holding("list", << Element(IntOf(1)) >>)),
                         Named(<<"[", "0", "]">>, IntOf(2)) >>),
      Holding("dict", << Named(<<"a">>, Holding("dict", << Named(<<"a">>, IntOf(3)) >>)) >>),
      Holding("list", << Element(Holding("tuple", << Element(IntOf(4)), Element(IntOf(5)) >>)),
                         Element(Holding("dict", << Named(<<"a">>, IntOf(6)) >>)) >>),
      Holding("object", << Named(<<"a">>, Holding("list", << Element(IntOf(7)) >>)),
                           Named(<<"0">>, IntOf(8)) >>),
      Holding("tuple", <<>>),
      IntOf(9) }

(* re.findall(r"[^\.\[\]]+|\[\d+\]", key), scanning key from position i.   *)
Plain(char) == char \notin {".", "[", "]"}

RECURSIVE RunEnd(_, _, _)
(* The last position of the longest run of characters in set from i.       *)
RunEnd(text, i, set) ==
    IF i <= Len(text) /\ text[i] \in set THEN RunEnd(text, i + 1, set) ELSE i - 1

RECURSIVE findall(_, _)
findall(text, i) ==
    IF i > Len(text) THEN <<>>
    ELSE IF Plain(text[i])
         THEN LET last == RunEnd(text, i, { c \in KeyChars : Plain(c) }) IN
              <<SubSeq(text, i, last)>> \o findall(text, last + 1)
         ELSE IF text[i] = "["
              THEN LET last == RunEnd(text, i + 1, Digits) IN
                   IF last >= i + 1 /\ last + 1 <= Len(text) /\ text[last + 1] = "]"
                   THEN <<SubSeq(text, i, last + 1)>> \o findall(text, last + 2)
                   ELSE findall(text, i + 1)
              ELSE findall(text, i + 1)

(* int(stripped_key) of a str of digits.                                   *)
RECURSIVE int(_)
int(digits) ==
    IF Len(digits) = 0 THEN 0
    ELSE 10 * int(SubSeq(digits, 1, Len(digits) - 1))
             + (IF digits[Len(digits)] = "1" THEN 1 ELSE 0)

GetOutcome(kind, what) == [kind |-> kind, what |-> what]

(* Lines 144-154: __extract_list_index                                     *)
extract_list_index(accessor) ==
    IF Len(accessor) < 3 \/ accessor[1] /= "[" \/ accessor[Len(accessor)] /= "]"
    THEN GetOutcome("ValueError", NoneOf)
    ELSE LET stripped_key == SubSeq(accessor, 2, Len(accessor) - 1) IN
         IF Len(stripped_key) > 0 /\ \A i \in 1..Len(stripped_key) : stripped_key[i] \in Digits
         THEN GetOutcome("index", IntOf(int(stripped_key)))
         ELSE GetOutcome("ValueError", NoneOf)

(* Lines 98-105: __get_list_child                                          *)
get_list_child(parent, accessor) ==
    LET parent_index == extract_list_index(accessor) IN
    IF parent_index.kind /= "index" THEN parent_index
    ELSE IF Len(parent.items) <= parent_index.what.int
         THEN GetOutcome("IndexError", NoneOf)
         ELSE GetOutcome("child", parent.items[parent_index.what.int + 1].child)

HasItem(parent, accessor) == \E i \in 1..Len(parent.items) : parent.items[i].name = accessor

ItemOf(parent, accessor) ==
    parent.items[CHOOSE i \in 1..Len(parent.items) : parent.items[i].name = accessor].child

(* Lines 107-116: __get_dict_child; hasattr finds the attributes of an     *)
(* object, and no dict, int or None has an attribute named by KeyChars.    *)
get_dict_child(parent, accessor) ==
    IF parent.type = "object" /\ HasItem(parent, accessor)
    THEN GetOutcome("child", ItemOf(parent, accessor))
    ELSE IF parent.type = "dict" /\ HasItem(parent, accessor)
         THEN GetOutcome("child", ItemOf(parent, accessor))
         ELSE GetOutcome("KeyError", NoneOf)

InitResolver ==
    /\ get_parent \in Parents
    /\ get_key \in Strings(MaxKeyLen) \cup {NoneKey}
    /\ accessors = <<>>
    /\ accessor_index = 0
    /\ deepest_value = NoneOf
    /\ get_pc = "start"
    /\ get_result = NoneOf
    /\ ResolverRestIdle

(* Lines 33-35 and 44: None is returned for the key None; otherwise the    *)
(* key is split into accessors.                                            *)
GetStart ==
    /\ get_pc = "start"
    /\ IF get_key /= NoneKey
       THEN /\ accessors' = findall(get_key, 1)
            /\ deepest_value' = get_parent
            /\ get_pc' = "loop"
            /\ UNCHANGED get_result
       ELSE /\ get_result' = NoneOf
            /\ get_pc' = "returned"
            /\ UNCHANGED <<accessors, deepest_value>>
    /\ UNCHANGED <<get_parent, get_key, accessor_index>>
    /\ UNCHANGED resolverRest

(* Lines 37-41: one iteration of the loop over the accessors.              *)
GetStep ==
    /\ get_pc = "loop"
    /\ accessor_index < Len(accessors)
    /\ LET accessor == accessors[accessor_index + 1]
           outcome == IF deepest_value.type \in {"list", "tuple"}
                      THEN get_list_child(deepest_value, accessor)
                      ELSE get_dict_child(deepest_value, accessor) IN
       IF outcome.kind = "child"
       THEN /\ deepest_value' = outcome.what
            /\ accessor_index' = accessor_index + 1
            /\ UNCHANGED get_pc
       ELSE /\ get_pc' = outcome.kind
            /\ UNCHANGED <<deepest_value, accessor_index>>
    /\ UNCHANGED <<get_parent, get_key, accessors, get_result>>
    /\ UNCHANGED resolverRest

(* Line 43: return deepest_value                                           *)
GetReturn ==
    /\ get_pc = "loop"
    /\ accessor_index = Len(accessors)
    /\ get_result' = deepest_value
    /\ get_pc' = "returned"
    /\ UNCHANGED <<get_parent, get_key, accessors, accessor_index, deepest_value>>
    /\ UNCHANGED resolverRest

NextResolver ==
    \/ GetStart
    \/ GetStep
    \/ GetReturn

SpecResolver == InitResolver /\ [][NextResolver]_vars

(* C14: a call of get ends by returning or by raising KeyError or          *)
(* IndexError, never another error, and the key None returns None.         *)
C14_OnlyKeyOrIndexError ==
    /\ get_pc \in {"start", "loop", "returned", "KeyError", "IndexError"}
    /\ get_key = NoneKey /\ get_pc /= "start" => get_pc = "returned" /\ get_result = NoneOf

----------------------------------------------------------------------------
(* DateUtils.datetime_to_string (date_utils.py) as shallow_normalize calls *)
(* it for a datetime (json_pre_serializer.py, lines 132-133).  A datetime  *)
(* holds its fields and its tzinfo: None for a naive datetime, or the      *)
(* offset from UTC in seconds.  A format is the sequence of its directives *)
(* and literal characters.                                                 *)
NaiveTz == [aware |-> FALSE, offset |-> 0]

UtcOffset(seconds) == [aware |-> TRUE, offset |-> seconds]

utc_format ==
    <<"%Y", "-", "%m", "-", "%d", " ", "%H", ":", "%M", ":", "%S", ".", "%f">>

iso_8061_format ==
    <<"%Y", "-", "%m", "-", "%d", "T", "%H", ":", "%M", ":", "%S", ".", "%f", "%z">>

NoFormat == <<"None">>

DateTimes ==
    [ year : {1, 999, 1970, 2024}, month : {1, 12}, day : {1, 31},
      hour : {0, 23}, minute : {0, 59}, second : {0, 59},
      microsecond : {0, 7, 999999},
      tzinfo : {NaiveTz, UtcOffset(0), UtcOffset(19800), UtcOffset(-28800),
               UtcOffset(19815)} ]

DigitChars == <<"0", "1", "2", "3", "4", "5", "6", "7", "8", "9">>

(* The decimal digits of n.                                                *)
RECURSIVE Decimal(_)
Decimal(n) ==
    IF n < 10 THEN <<DigitChars[n + 1]>>
    ELSE Decimal(n \div 10) \o <<DigitChars[(n % 10) + 1]>>

(* n in at least width digits, zero filled.                                *)
RECURSIVE ZeroFilled(_, _)
ZeroFilled(digits, width) ==
    IF Len(digits) >= width THEN digits ELSE ZeroFilled(<<"0">> \o digits, width)

(* %z: empty for a naive datetime, else the sign, hours and minutes of the *)
(* offset, and its seconds when they are not zero.                         *)
FormatOffset(tzinfo) ==
    IF tzinfo = NaiveTz THEN <<>>
    ELSE LET offset == tzinfo.offset
             seconds == IF offset < 0 THEN -offset ELSE offset IN
         <<IF offset < 0 THEN "-" ELSE "+">>
             \o ZeroFilled(Decimal(seconds \div 3600), 2)
             \o ZeroFilled(Decimal((seconds % 3600) \div 60), 2)
             \o (IF seconds % 60 = 0 THEN <<>> ELSE ZeroFilled(Decimal(seconds % 60), 2))

(* One directive of strftime; the C library decides whether %Y is filled   *)
(* to four digits (pads_year).                                             *)
Directive(dt, directive, pads_year) ==
    CASE directive = "%Y" -> IF pads_year THEN ZeroFilled(Decimal(dt.year), 4)
                                          ELSE Decimal(dt.year)
      [] directive = "%m" -> ZeroFilled(Decimal(dt.month), 2)
      [] directive = "%d" -> ZeroFilled(Decimal(dt.day), 2)
      [] directive = "%H" -> ZeroFilled(Decimal(dt.hour), 2)
      [] directive = "%M" -> ZeroFilled(Decimal(dt.minute), 2)
      [] directive = "%S" -> ZeroFilled(Decimal(dt.second), 2)
      [] directive = "%f" -> ZeroFilled(Decimal(dt.microsecond), 6)
      [] directive = "%z" -> FormatOffset(dt.tzinfo)
      [] OTHER -> <<directive>>

(* datetime.strftime(date_time, date_format)                               *)
RECURSIVE strftime(_, _, _)
strftime(dt, format, pads_year) ==
    IF Len(format) = 0 THEN <<>>
    ELSE Directive(dt, Head(format), pads_year) \o strftime(dt, Tail(format), pads_year)

InitDate ==
    /\ date_time \in DateTimes
    /\ date_format \in {NoFormat, iso_8061_format}
    /\ date_string = <<>>
    /\ date_pc = "called"
    /\ DateRestIdle

(* Lines 57-60 of date_utils.py with the format shallow_normalize passes   *)
(* (json_pre_serializer.py, line 133).                                     *)
NormalizeDatetime ==
    /\ date_pc = "called"
    /\ date_format = iso_8061_format
    /\ \E pads_year \in BOOLEAN : date_string' = strftime(date_time, date_format, pads_year)
    /\ date_pc' = "normalized"
    /\ UNCHANGED <<date_time, date_format>>
    /\ UNCHANGED dateRest

(* Lines 57-60 of date_utils.py without a format: utc_format is used.      *)
FormatDefault ==
    /\ date_pc = "called"
    /\ date_format = NoFormat
    /\ \E pads_year \in BOOLEAN : date_string' = strftime(date_time, utc_format, pads_year)
    /\ date_pc' = "formatted"
    /\ UNCHANGED <<date_time, date_format>>
    /\ UNCHANGED dateRest

NextDate ==
    \/ NormalizeDatetime
    \/ FormatDefault

SpecDate == InitDate /\ [][NextDate]_vars

AreDigits(text, from, to) ==
    \A i \in from..to : \E d \in 1..10 : text[i] = DigitChars[d]

(* YYYY-MM-DDTHH:MM:SS.ssssss followed by +HHMM or -HHMM                   *)
IsoWithOffset(text) ==
    /\ Len(text) = 31
    /\ AreDigits(text, 1, 4) /\ text[5] = "-" /\ AreDigits(text, 6, 7) /\ text[8] = "-"
    /\ AreDigits(text, 9, 10) /\ text[11] = "T" /\ AreDigits(text, 12, 13) /\ text[14] = ":"
    /\ AreDigits(text, 15, 16) /\ text[17] = ":" /\ AreDigits(text, 18, 19) /\ text[20] = "."
    /\ AreDigits(text, 21, 26) /\ text[27] \in {"+", "-"} /\ AreDigits(text, 28, 31)

EpochText ==
    <<"1", "9", "7", "0", "-", "0", "1", "-", "0", "1", "T", "0", "0", ":", "0", "0", ":",
      "0", "0", ".", "0", "0", "0", "0", "0", "0", "+", "0", "0", "0", "0">>

IsEpoch(dt) ==
    /\ dt.year = 1970 /\ dt.month = 1 /\ dt.day = 1 /\ dt.hour = 0 /\ dt.minute = 0
    /\ dt.second = 0 /\ dt.microsecond = 0

(* C16: the str the normalizer emits for a datetime has the form           *)
(* YYYY-MM-DDTHH:MM:SS.ssssss followed by an offset +HHMM or -HHMM, and    *)
(* for 1970-01-01T00:00:00.000000 it is "1970-01-01T00:00:00.000000+0000". *)
C16_TimestampHasOffset ==
    date_pc = "normalized" =>
        /\ IsoWithOffset(date_string)
        /\ IsEpoch(date_time) /\ date_time.tzinfo \in {NaiveTz, UtcOffset(0)} => date_string = EpochText

(* What holds of every datetime: one that has a tzinfo whose offset is a   *)
(* whole number of minutes and whose year has four digits gets the form.   *)
AwareTimestampHasOffset ==
    date_pc = "normalized" /\ date_time.tzinfo /= NaiveTz /\ date_time.year >= 1000
        /\ date_time.tzinfo.offset % 60 = 0
            => IsoWithOffset(date_string)

----------------------------------------------------------------------------
(* StreamingUtils.process_read_stream (streaming_utils.py), an async       *)
(* generator: it is suspended at each yield until the consumer asks for    *)
(* the next item, and the consumer may close it there.                     *)

(* Number of reads whose result file_stream scripts; every later read      *)
(* returns empty bytes.                                                    *)
MaxReads == 4

Bytes(text) == [isNone |-> FALSE, bytes |-> text]

NoneChunk == [isNone |-> TRUE, bytes |-> <<>>]

EmptyBytes == Bytes(<<>>)

Chunks == {Bytes(<<"a">>), Bytes(<<"b", "c">>), EmptyBytes, NoneChunk}

Processors == {"hash", "count"}

(* processor(chunk): a function of the chunk.                              *)
Apply(function, bytes) ==
    IF function = "count" THEN <<"count", Len(bytes.bytes)>> ELSE <<"hash", bytes.bytes>>

NoItem == <<"none">>

(* Only None stops the loop.                                               *)
IsEnd_NoneOnly(bytes) == bytes.isNone

(* Line 119: chunk is None or len(chunk) == 0                              *)
IsEnd(bytes) == bytes.isNone \/ Len(bytes.bytes) = 0

(* file_stream.read(chunk_size) of the n-th read.                          *)
ReadResult(n) == IF n <= Len(stream_reads) THEN stream_reads[n] ELSE EmptyBytes

InitStream ==
    /\ stream_reads \in UNION { [1..n -> Chunks] : n \in 0..MaxReads }
    /\ read_count = 0
    /\ read_is_async \in BOOLEAN
    /\ processor \in Processors
    /\ yield_processed \in BOOLEAN
    /\ chunk = NoneChunk
    /\ processed = NoItem
    /\ stream_pc = "read"
    /\ yielded = <<>>
    /\ processor_calls = <<>>
    /\ StreamRestIdle

(* Lines 114-117: read a chunk, awaiting read when it is a coroutine       *)
(* function.                                                               *)
StreamRead ==
    /\ stream_pc = "read"
    /\ read_count' = read_count + 1
    /\ chunk' = ReadResult(read_count + 1)
    /\ stream_pc' = "test"
    /\ UNCHANGED <<stream_reads, read_is_async, processor, yield_processed, processed,
                   yielded, processor_calls>>
    /\ UNCHANGED streamRest

(* Lines 119-120: break, the generator is exhausted.                       *)
StreamBreak ==
    /\ stream_pc = "test"
    /\ IsEnd(chunk)
    /\ stream_pc' = "exhausted"
    /\ UNCHANGED <<stream_reads, read_count, read_is_async, processor, yield_processed,
                   chunk, processed, yielded, processor_calls>>
    /\ UNCHANGED streamRest

(* Line 122: processed = processor(chunk)                                  *)
StreamProcess ==
    /\ stream_pc = "test"
    /\ ~IsEnd(chunk)
    /\ processed' = Apply(processor, chunk)
    /\ processor_calls' = Append(processor_calls, chunk)
    /\ stream_pc' = "yield"
    /\ UNCHANGED <<stream_reads, read_count, read_is_async, processor, yield_processed,
                   chunk, yielded>>
    /\ UNCHANGED streamRest

(* Lines 124-127: yield processed or the chunk, and stay suspended.        *)
StreamYield ==
    /\ stream_pc = "yield"
    /\ yielded' = Append(yielded, IF yield_processed THEN processed ELSE <<"raw", chunk.bytes>>)
    /\ stream_pc' = "suspended"
    /\ UNCHANGED <<stream_reads, read_count, read_is_async, processor, yield_processed,
                   chunk, processed, processor_calls>>
    /\ UNCHANGED streamRest

(* The consumer asks for the next item: the loop of line 113 goes on.      *)
StreamResume ==
    /\ stream_pc = "suspended"
    /\ stream_pc' = "read"
    /\ UNCHANGED <<stream_reads, read_count, read_is_async, processor, yield_processed,
                   chunk, processed, yielded, processor_calls>>
    /\ UNCHANGED streamRest

(* The consumer closes the generator at the yield.                         *)
StreamClose ==
    /\ stream_pc = "suspended"
    /\ stream_pc' = "closed"
    /\ UNCHANGED <<stream_reads, read_count, read_is_async, processor, yield_processed,
                   chunk, processed, yielded, processor_calls>>
    /\ UNCHANGED streamRest

NextStream ==
    \/ StreamRead
    \/ StreamBreak
    \/ StreamProcess
    \/ StreamYield
    \/ StreamResume
    \/ StreamClose

SpecStream == InitStream /\ [][NextStream]_vars

(* The results of the reads made so far.                                   *)
ReadSoFar == [n \in 1..read_count |-> ReadResult(n)]

(* The item the generator is to yield for a chunk.                         *)
ItemFor(bytes) == IF yield_processed THEN Apply(processor, bytes) ELSE <<"raw", bytes.bytes>>

(* C17: no read follows a read that returned empty bytes or None; the      *)
(* processor has been applied once to each non-empty chunk read, in read   *)
(* order; the items yielded are, in read order, one per non-empty chunk    *)
(* (processor(chunk) when yield_processed, else the chunk); and the        *)
(* generator is exhausted exactly on the first empty read.                 *)
C17_OneItemPerChunkUntilEmpty ==
    /\ \A n \in 1..(read_count - 1) : ~(ReadResult(n).isNone \/ ReadResult(n) = EmptyBytes)
    /\ Len(processor_calls) \in {read_count - 1, read_count}
    /\ \A n \in 1..Len(processor_calls) : processor_calls[n] = ReadResult(n)
    /\ Len(yielded) \in {Len(processor_calls) - 1, Len(processor_calls)}
    /\ \A n \in 1..Len(yielded) : yielded[n] = ItemFor(ReadResult(n))
    /\ stream_pc \in {"suspended", "read", "closed"} =>
          Len(yielded) = read_count /\ Len(processor_calls) = read_count
    /\ stream_pc = "exhausted" =>
          /\ ReadResult(read_count).isNone \/ ReadResult(read_count) = EmptyBytes
          /\ Len(yielded) = read_count - 1
          /\ Len(processor_calls) = read_count - 1

(* The generator ended on an empty read after yielding two raw chunks,     *)
(* with a scripted read left that was never made.                          *)
C17_Witness ==
    /\ stream_pc = "exhausted"
    /\ Len(yielded) = 2
    /\ ~yield_processed
    /\ read_is_async
    /\ read_count < Len(stream_reads)

----------------------------------------------------------------------------
(* The two phases of prepare_for_serialization.                            *)

(* Phase 1 of call c has ended: its loop found the stack empty.            *)
Phase1Ended(c) == pc[c] = "phase1" /\ Len(traversal_stack[c]) = 0

(* The children of a normalized node: the values of a mapping, the         *)
(* elements of a list, tuple or set.                                       *)
NodeChildren(h, ref) == IF IsDict(h[ref]) \/ IsSequence(h[ref]) THEN Children(h, ref) ELSE {}

(* The identities reached from the root through the children of the        *)
(* normalized nodes registered for them.                                   *)
RECURSIVE RegistryReach(_, _, _)
RegistryReach(c, frontier, seen) ==
    IF frontier = {} THEN seen
    ELSE LET registered == { a \in frontier : a \in DOMAIN node_lookup[c] }
             children == UNION { NodeChildren(heap, node_lookup[c][a]) : a \in registered }
         IN RegistryReach(c, children \ (seen \cup frontier), seen \cup frontier)

(* C18: when phase 1 ends, every identity reachable from the root through  *)
(* the children of the normalized nodes has a registry entry; and during   *)
(* phase 1 an entry, once written, is never written again: a step of phase *)
(* 1 that writes the registry adds one identity that had no entry and      *)
(* leaves every other entry as it was.                                     *)
C18_Phase1RegistersOnce ==
    /\ [](\A c \in CallIds :
            Phase1Ended(c) => RegistryReach(c, {context_var[c]}, {}) \subseteq DOMAIN node_lookup[c])
    /\ [][\A c \in CallIds :
            pc[c] = "phase1" =>
                /\ \A a \in DOMAIN node_lookup[c] :
                      a \in DOMAIN node_lookup'[c] /\ node_lookup'[c][a] = node_lookup[c][a]
                /\ node_lookup'[c] /= node_lookup[c] =>
                      /\ DOMAIN node_lookup'[c] = DOMAIN node_lookup[c] \cup {Top(c)}
                      /\ Top(c) \notin DOMAIN node_lookup[c]]_vars

(* Phase 1 has ended for a graph in which one mapping or list is reached   *)
(* through two slots, and has one entry.                                   *)
C18_Witness ==
    /\ Phase1Ended(1)
    /\ \E p \in DOMAIN node_lookup[1], q \in DOMAIN node_lookup[1] :
          /\ \E i \in 1..Len(heap[node_lookup[1][p]].items),
                j \in 1..Len(heap[node_lookup[1][q]].items) :
                /\ <<p, i>> /= <<q, j>>
                /\ heap[node_lookup[1][p]].items[i].v = heap[node_lookup[1][q]].items[j].v
                /\ IsContainer(heap[heap[node_lookup[1][p]].items[i].v])
                /\ heap[node_lookup[1][p]].items[i].v \in DOMAIN node_lookup[1]

(* C19: phase 2 never fails with a missing key: the lookup of the popped   *)
(* identity and of the identity of every child slot of its entry succeed.  *)
C19_Phase2LookupsSucceed ==
    \A c \in CallIds :
        /\ pc[c] /= "KeyError"
        /\ pc[c] = "phase2" /\ Len(traversal_stack[c]) > 0
              /\ Top(c) \notin visited_element_ids[c] =>
                 /\ Top(c) \in DOMAIN node_lookup[c]
                 /\ IsDict(heap[node_lookup[c][Top(c)]]) \/ IsList(heap[node_lookup[c][Top(c)]]) =>
                       LookupsSucceed(node_lookup[c], Values(heap[node_lookup[c][Top(c)]]))

(* Call c has taken a work item from its stack in this step.               *)
Pops(c) ==
    /\ pc[c] \in {"phase1", "phase2"}
    /\ Len(traversal_stack[c]) > 0
    /\ <<traversal_stack[c], visited_element_ids[c], pc[c]>>'
           /= <<traversal_stack[c], visited_element_ids[c], pc[c]>>

(* C20: a step of either phase that pops an identity already visited only  *)
(* removes it from the stack: registry, heap and visited set are as        *)
(* before; a step that pops an identity not yet visited marks it visited,  *)
(* and within a phase the visited set only grows, so an identity is        *)
(* processed at most once per phase; and the step between the phases       *)
(* empties the visited set and leaves the root alone on the stack.         *)
C20_OncePerPhase ==
    [][\A c \in CallIds :
          /\ Pops(c) /\ Top(c) \in visited_element_ids[c] =>
                /\ traversal_stack'[c] = Popped(c)
                /\ UNCHANGED <<heap, node_lookup, visited_element_ids, pc>>
          /\ Pops(c) /\ Top(c) \notin visited_element_ids[c] =>
                visited_element_ids'[c] = visited_element_ids[c] \cup {Top(c)}
          /\ pc'[c] = pc[c] => visited_element_ids[c] \subseteq visited_element_ids'[c]
          /\ ~Pops(c) /\ pc[c] \in {"phase1", "phase2"} /\ pc'[c] \in {"phase1", "phase2"} =>
                UNCHANGED node_lookup[c]
          /\ pc[c] = "phase1" /\ pc'[c] = "phase2" =>
                /\ Len(traversal_stack[c]) = 0
                /\ visited_element_ids'[c] = {}
                /\ traversal_stack'[c] = <<context_var[c]>>
                /\ UNCHANGED <<heap, node_lookup>>]_vars

(* Phase 2 has discarded a work item: the stack is empty, phase 2 has      *)
(* visited fewer identities than it popped.                                *)
C20_Witness ==
    /\ pc[1] = "phase2"
    /\ Len(traversal_stack[1]) = 0
    /\ \E p \in visited_element_ids[1] :
          /\ p \in DOMAIN node_lookup[1]
          /\ \E i \in 1..Len(heap[node_lookup[1][p]].items) :
                heap[node_lookup[1][p]].items[i].v = node_lookup[1][p]

----------------------------------------------------------------------------
(* The order of removal.  The code takes the last work item of the list    *)
(* (traversal_stack.pop(), lines 39 and 63); here each loop takes the item *)
(* at any position, which covers last in first out, first in first out and *)
(* every other order.                                                      *)
Phase1SkipAny(c) == \E i \in 1..Len(Stack(c)) : Phase1SkipAt(c, i)

Phase1VisitAny(c) == \E i \in 1..Len(Stack(c)) : Phase1VisitAt(c, i)

Phase2SkipAny(c) == \E i \in 1..Len(Stack(c)) : Phase2SkipAt(c, i)

Phase2VisitAny(c) == \E i \in 1..Len(Stack(c)) : Phase2VisitAt(c, i)

NextAnyOrder ==
    \E c \in CallIds :
        \/ Start(c)
        \/ Phase1SkipAny(c)
        \/ Phase1VisitAny(c)
        \/ Restart(c)
        \/ Phase2SkipAny(c)
        \/ Phase2VisitAny(c)
        \/ Return(c)

SpecAnyOrder == InitEnum /\ [][NextAnyOrder]_vars

(* C21: whatever the order in which the work items are removed, the call   *)
(* ends as the coded last-in-first-out run ends: phase 1 ends with the     *)
(* same visited identities and the same registry, the call halts the same  *)
(* way with the same result, and a call that returns has visited the same  *)
(* identities in phase 2 and leaves the same registry and the same heap.   *)
C21_AnyRemovalOrderSameResult ==
    \A c \in CallIds :
        /\ Phase1Ended(c) =>
              LET coded == RunAlone(c) IN
              /\ coded.pc /= "AttributeError"
              /\ Visited(c) = DOMAIN coded.node_lookup
              /\ Lookup(c) = coded.node_lookup
        /\ Halted(c) =>
              LET coded == RunAlone(c) IN
              /\ pc[c] = coded.pc
              /\ result[c] = coded.result
              /\ Done(c) =>
                    /\ Visited(c) = coded.visited_element_ids
                    /\ Lookup(c) = coded.node_lookup
                    /\ heap = coded.heap

(* Phase 2 has taken the first of the two children of a list from the      *)
(* stack and rewritten its entry while the second, pushed after it, still  *)
(* waits next to the child the first one queued: the removal was not last  *)
(* in first out.                                                           *)
C21_Witness ==
    /\ pc[1] = "phase2"
    /\ Values(original[In(1)]) = <<In(2), In(3)>>
    /\ Stack(1) = <<In(3), In(3)>>
    /\ Visited(1) = {In(1), In(2)}
    /\ IsList(original[In(2)])
    /\ Values(original[In(2)]) = <<In(3)>>
    /\ Values(heap[Lookup(1)[In(2)]]) = <<Lookup(1)[In(3)]>>

----------------------------------------------------------------------------
(* JsonPreSerializer.shallow_normalize on one value (lines 96-135), with   *)
(* what each rule reads kept apart.  A value has the attributes and base   *)
(* types the rules probe (caps), the attributes among model_dump and dict  *)
(* that are callable (callables), and a key that is not a str where keys   *)
(* need not be (bad_key).  Each rule reads its own view of the value: the  *)
(* child at <<view, n>> under a public and under a private key.            *)
BaseTypes == {"dict", "list", "tuple", "set", "datetime"}

Attributes == {"__sensitive__", "Enum", "model_dump", "dict()", "__slots__", "__dict__", "__items__"}

Node(caps, callables, bad_key) == [caps |-> caps, callables |-> callables, bad_key |-> bad_key]

(* A class has at most one of the built-in base types (their layouts       *)
(* conflict), and any of the attributes.                                   *)
Nodes ==
    { Node(attrs \cup base, callables, bad_key) :
        attrs \in SUBSET Attributes,
        base \in {{}} \cup { {t} : t \in BaseTypes },
        callables \in SUBSET {"model_dump", "dict()"},
        bad_key \in BOOLEAN }

(* The items a rule iterates: node.items(), the elements, model_dump(),    *)
(* dict(), the names in __slots__ (always str), __dict__.items(), and      *)
(* get_iterable(__items__).                                                *)
ViewItems(node, view) ==
    << Slot(IF node.bad_key /\ view /= "__slots__" THEN KeyOne ELSE KeyA, <<view, 1>>),
       Slot(KeyPrivate, <<view, 2>>) >>

(* The addresses of the value itself, of node.value and of a new object.   *)
NodeRef == <<"node", 0>>

ValueRef == <<"value", 0>>

NewRef == <<"new", 0>>

NodeObject(node) == Obj(node.caps, <<>>, <<"node">>)

ValueObject == Obj({"int"}, <<>>, <<"1">>)

(* hasattr(node, name) and callable(getattr(node, name)).                  *)
HasCallable(node, name) == name \in node.caps /\ name \in node.callables

(* The rule for declared slots is tried after the rule for __dict__.       *)
shallow_normalize_node_DictFirst(node) ==
    IF "__sensitive__" \in node.caps THEN Built(RedactedLiteral, RedactedObject)
    ELSE IF "Enum" \in node.caps THEN Built(ValueRef, ValueObject)
    ELSE IF "dict" \in node.caps THEN FilteredDict(NewRef, ViewItems(node, "dict"))
    ELSE IF node.caps \cap {"list", "tuple", "set"} /= {}
         THEN Built(NewRef, Obj({"list"}, [i \in 1..2 |-> Slot(NoKey, ViewItems(node, "elements")[i].v)], <<>>))
    ELSE IF HasCallable(node, "model_dump")
         THEN Built(NewRef, Obj({"dict"}, ViewItems(node, "model_dump"), <<>>))
    ELSE IF HasCallable(node, "dict()")
         THEN Built(NewRef, Obj({"dict"}, ViewItems(node, "dict()"), <<>>))
    ELSE IF "__dict__" \in node.caps THEN FilteredDict(NewRef, ViewItems(node, "__dict__"))
    ELSE IF "__slots__" \in node.caps THEN FilteredDict(NewRef, ViewItems(node, "__slots__"))
    ELSE IF "__items__" \in node.caps THEN FilteredDict(NewRef, ViewItems(node, "__items__"))
    ELSE IF "datetime" \in node.caps
         THEN Built(NewRef, Obj({"str"}, <<>>, datetime_to_string(DatetimeObject.text)))
    ELSE Built(NodeRef, NodeObject(node))

(* Lines 107-135, the chain of if and elif as written.                     *)
shallow_normalize_node(node) ==
    IF "__sensitive__" \in node.caps THEN Built(RedactedLiteral, RedactedObject)
    ELSE IF "Enum" \in node.caps THEN Built(ValueRef, ValueObject)
    ELSE IF "dict" \in node.caps THEN FilteredDict(NewRef, ViewItems(node, "dict"))
    ELSE IF node.caps \cap {"list", "tuple", "set"} /= {}
         THEN Built(NewRef, Obj({"list"}, [i \in 1..2 |-> Slot(NoKey, ViewItems(node, "elements")[i].v)], <<>>))
    ELSE IF HasCallable(node, "model_dump")
         THEN Built(NewRef, Obj({"dict"}, ViewItems(node, "model_dump"), <<>>))
    ELSE IF HasCallable(node, "dict()")
         THEN Built(NewRef, Obj({"dict"}, ViewItems(node, "dict()"), <<>>))
    ELSE IF "__slots__" \in node.caps THEN FilteredDict(NewRef, ViewItems(node, "__slots__"))
    ELSE IF "__dict__" \in node.caps THEN FilteredDict(NewRef, ViewItems(node, "__dict__"))
    ELSE IF "__items__" \in node.caps THEN FilteredDict(NewRef, ViewItems(node, "__items__"))
    ELSE IF "datetime" \in node.caps
         THEN Built(NewRef, Obj({"str"}, <<>>, datetime_to_string(DatetimeObject.text)))
    ELSE Built(NodeRef, NodeObject(node))

(* create_stack_elements on the value shallow_normalize returned (lines    *)
(* 152-160): the values of a dict, the elements of a list, or the value.   *)
create_stack_elements_of(child_nodes) ==
    IF IsDict(child_nodes.obj) \/ IsSequence(child_nodes.obj)
    THEN Values(child_nodes.obj)
    ELSE <<child_nodes.ref>>

NotNormalized == Raises("not yet")

InitNormalize ==
    /\ given_node \in Nodes
    /\ normalized = NotNormalized
    /\ stack_elements = <<>>
    /\ normalize_pc = "given"
    /\ NormalizeRestIdle

(* Line 46: child_nodes = shallow_normalize(current_node).                 *)
ShallowNormalize ==
    /\ normalize_pc = "given"
    /\ normalized' = shallow_normalize_node(given_node)
    /\ normalize_pc' = IF normalized'.error = "none" THEN "normalized" ELSE normalized'.error
    /\ UNCHANGED <<given_node, stack_elements>>
    /\ UNCHANGED normalizeRest

(* Line 49: stack_elements = create_stack_elements(child_nodes).           *)
CreateStackElements ==
    /\ normalize_pc = "normalized"
    /\ stack_elements' = create_stack_elements_of(normalized)
    /\ normalize_pc' = "queued"
    /\ UNCHANGED <<given_node, normalized>>
    /\ UNCHANGED normalizeRest

NextNormalize == ShallowNormalize \/ CreateStackElements

SpecNormalize == InitNormalize /\ [][NextNormalize]_vars

(* The rules in the order the specification gives them, and the values     *)
(* each rule matches.                                                      *)
RuleOrder ==
    << "__sensitive__", "Enum", "dict", "sequence", "model_dump", "dict()",
       "__slots__", "__dict__", "__items__", "datetime", "pass-through" >>

Matches(node, rule) ==
    CASE rule = "sequence" -> node.caps \cap {"list", "tuple", "set"} /= {}
      [] rule \in {"model_dump", "dict()"} -> HasCallable(node, rule)
      [] rule = "pass-through" -> TRUE
      [] OTHER -> rule \in node.caps

FirstRule(node) ==
    RuleOrder[CHOOSE i \in 1..Len(RuleOrder) :
                 /\ Matches(node, RuleOrder[i])
                 /\ \A j \in 1..(i - 1) : ~Matches(node, RuleOrder[j])]

(* The value that matches the given rule as node does and no other rule.   *)
OnlyRule(node, rule) ==
    [node EXCEPT
        !.caps = CASE rule = "sequence" -> node.caps \cap {"list", "tuple", "set"}
                   [] rule = "pass-through" -> {}
                   [] OTHER -> {rule},
        !.callables = node.callables \cap {rule}]

(* The children of the value under any of its views.                       *)
Contents ==
    { <<view, n>> : view \in {"dict", "elements", "model_dump", "dict()",
                              "__slots__", "__dict__", "__items__"}, n \in 1..2 }

(* C22: shallow_normalize handles a value by the first rule it matches in  *)
(* the order redaction marker, enum, mapping, sequence, model_dump, dict,  *)
(* __slots__, __dict__, __items__, datetime, pass-through, and by that     *)
(* rule only: it returns what it returns for the value that matches that   *)
(* rule alone (the value itself when no rule but the last matches); and a  *)
(* value with the redaction marker yields the string "<redacted>" without  *)
(* an exception whatever else it is, and none of its contents is queued.   *)
C22_FirstMatchingRuleOnly ==
    normalize_pc /= "given" =>
        LET rule == FirstRule(given_node) IN
        /\ rule /= "pass-through" =>
              normalized = shallow_normalize_node(OnlyRule(given_node, rule))
        /\ rule = "pass-through" =>
              normalized = Built(NodeRef, NodeObject(given_node))
        /\ "__sensitive__" \in given_node.caps =>
              /\ normalized = Built(RedactedLiteral, RedactedObject)
              /\ normalize_pc \in {"normalized", "queued"}
              /\ normalize_pc = "queued" =>
                    /\ stack_elements = <<RedactedLiteral>>
                    /\ \A i \in 1..Len(stack_elements) : stack_elements[i] \notin Contents

(* A value with the redaction marker that is also an enum, a mapping with  *)
(* a key that is not a str, and a record has been normalized and queued.   *)
C22_Witness ==
    /\ normalize_pc = "queued"
    /\ {"__sensitive__", "Enum", "dict", "model_dump", "__slots__", "__dict__"} \subseteq given_node.caps
    /\ given_node.bad_key
    /\ normalized.obj = RedactedObject

----------------------------------------------------------------------------
(* The entries of the registry of call c: the objects bound to its keys.   *)
Entries(c) == { node_lookup[c][a] : a \in DOMAIN node_lookup[c] }

(* C23: a step of phase 2 leaves the registry as it is, keys and bound     *)
(* objects, so each identity is bound at the end of phase 2 to the object  *)
(* it was bound to at the end of phase 1; it creates and removes no        *)
(* object, and an object it changes is an entry that is a mapping or a     *)
(* list, of which only the child slots change: its type, its keys in       *)
(* their order and its length stay, and every other object, scalar         *)
(* entries included, stays as it was.                                      *)
C23_Phase2KeepsRegistry ==
    [][\A c \in CallIds :
          pc[c] = "phase2" /\ (Pops(c) \/ pc'[c] /= pc[c]) =>
              /\ node_lookup'[c] = node_lookup[c]
              /\ DOMAIN heap' = DOMAIN heap
              /\ \A a \in DOMAIN heap :
                    heap'[a] /= heap[a] =>
                        /\ a \in Entries(c)
                        /\ IsDict(heap[a]) \/ IsList(heap[a])
                        /\ heap'[a].caps = heap[a].caps
                        /\ heap'[a].text = heap[a].text
                        /\ Keys(heap'[a]) = Keys(heap[a])
                        /\ Len(heap'[a].items) = Len(heap[a].items)]_vars

(* The call has returned; the entry of the root, an enum, is its value, a  *)
(* list of the input, whose slot phase 2 has rewritten in place from the   *)
(* enum to the entry of the enum, the list itself.                         *)
C23_Witness ==
    /\ Done(1)
    /\ "Enum" \in original[In(1)].caps
    /\ node_lookup[1][In(1)] = In(2)
    /\ IsList(original[In(2)])
    /\ Values(original[In(2)]) = <<In(1)>>
    /\ Values(heap[In(2)]) = <<In(2)>>

----------------------------------------------------------------------------
(* deep_merge on graphs without cycles, on which every call returns: a     *)
(* dictionary nests later dictionaries of its side only, and several keys  *)
(* may hold one dictionary.  The target side has twice the dictionaries of *)
(* the source side.                                                        *)
RECURSIVE AcyclicSide(_, _, _, _)
AcyclicSide(side, n, last, scalar) ==
    IF n > last THEN { <<>> }
    ELSE { (DictAddr(side, n) :> d) @@ g :
             d \in DictsOver(scalar, { DictAddr(side, m) : m \in (n + 1)..last }),
             g \in AcyclicSide(side, n + 1, last, scalar) }

InitMergeAcyclic ==
    /\ dicts \in { s @@ t : s \in AcyclicSide("source", 1, NumDicts, 0),
                            t \in AcyclicSide("target", 1, 2 * NumDicts, 1) }
    /\ dicts0 = dicts
    /\ source_dict = DictValue(SourceAddr(1))
    /\ target_dict = DictValue(TargetAddr(1))
    /\ node_queue = <<>>
    /\ merge_pc = "start"
    /\ merge_result = NoneValue
    /\ merged = {}
    /\ MergeRestIdle

SpecMergeAcyclic == InitMergeAcyclic /\ [][NextMerge]_vars

(* The dictionaries of the target side.                                    *)
TargetDicts == { a \in DOMAIN dicts : a[1] = "target" }

(* C24: the two arguments share no dictionary when the call starts, and    *)
(* when the call has returned target_dict and every dictionary nested in   *)
(* it hold the keys and values they held before the call.                  *)
C24_TargetNotWritten ==
    MergeDone => \A a \in TargetDicts : dicts[a] = dicts0[a]

====
